---- MODULE Spec2Model ----
(***************************************************************************)
(* Vibe-directed queue planning of vibe-jockey.                            *)
(*                                                                         *)
(*   - the embedding store: table song_embeddings and the SQL function     *)
(*     match_embeddings (backend/sql, two variants);                       *)
(*   - the queue facade: the /api/song-queue route handlers (the mock      *)
(*     handler that draws random songs, and the handler that forwards to   *)
(*     the backend's /api/queue);                                          *)
(*   - the backend's queue planner and trait direction resolver, which     *)
(*     are not part of the available sources and are modelled from the     *)
(*     design document (sections 4.2 and 4.3);                             *)
(*   - the import of a user's liked songs (the Inngest job and the work    *)
(*     the Spotify auth callback starts in the background);                *)
(*   - the playback route PUT /api/spotify/playback;                       *)
(*   - the navigation of the SpotifyPlayer component (nextTrack,           *)
(*     previousTrack, changeFlow).                                         *)
(*                                                                         *)
(* Numbers.  Embeddings are integer vectors of dimension Dim.  A cosine    *)
(* similarity c = dot / sqrt(na * nq) is irrational in general, so it is   *)
(* carried exactly as the fraction  sgn(dot) * dot^2 / (na * nq), i.e. as  *)
(* sgn(c) * c^2, which is strictly increasing in c: comparisons of         *)
(* similarities and against thresholds are exact.  Thresholds are          *)
(* numerators over ThrDen.  Floating-point rounding is not modelled.       *)
(*                                                                         *)
(* Scope.  match_embeddings is modelled by what the query denotes (an      *)
(* exact scan); the recall of the HNSW index that may serve it is not      *)
(* modelled.  Query vectors are non-zero, so a cosine distance is always   *)
(* defined.  Spotify, Supabase and the backend are the environment: each   *)
(* request to them has every outcome the calling code distinguishes.       *)
(* Retries of a failed step by the Inngest runtime are not modelled, and   *)
(* React state is read as the value of the latest render.                  *)
(***************************************************************************)
EXTENDS Integers, Sequences, FiniteSets, TLC

VARIABLES
    store,        \* song_embeddings: id -> [embedding]
    sqlCall,      \* the last match_embeddings call (SpecStore)
    sqlRows,      \* the rows that call returned
    sqlCall2,     \* the same query made again at another threshold
    sqlRows2,     \* and its rows
    deployment,   \* which handler serves /api/song-queue: "mock" | "backend"
    mockRequest,  \* the last request the mock handler served
    mockResponse, \* and its response
    run,          \* per request slot: facade + backend planning run
    song_embeddings, \* the table: rows with id, embedding, title, artist, user_id
    job,          \* per user: the import of the liked songs
    ingested,     \* Spotify ids of the tracks an upsert has written
    lastUpsert,   \* the last upsert of an import
    upserted,     \* the last song the backend stored an embedding for
    client,       \* the player: the track that plays, the seed it sent
    playback,     \* the playback route: a PUT request being served
    callback,     \* the Spotify auth callback: a GET request and its background work
    player        \* SpotifyPlayer: queue state, isAnimating, pending navigation

vars == <<store, sqlCall, sqlRows, sqlCall2, sqlRows2, deployment, mockRequest,
          mockResponse, run, song_embeddings, job, ingested, lastUpsert,
          upserted, client, playback, callback, player>>

NULL == "NULL"
\* a NULL embedding column (a row ingested but not yet embedded)
NullVector == <<>>

----------------------------------------------------------------------------
(* Bounds *)

Dim == 2            \* embedding dimension of the model (768 in the schema)
MaxCount == 3       \* largest match_count tried
MaxExclude == 2     \* largest exclusion set a caller wants excluded
MaxLength == 3      \* largest transitionLength requested from the backend
MaxMockLen == 2     \* largest transitionLength of mock requests with traits

----------------------------------------------------------------------------
(* Vectors *)

RECURSIVE SumTo(_, _)
SumTo(f, n) == IF n = 0 THEN 0 ELSE f[n] + SumTo(f, n - 1)

Dot(a, b) == SumTo([i \in 1..Dim |-> a[i] * b[i]], Dim)
Norm2(a) == Dot(a, a)
Axis(k) == [i \in 1..Dim |-> IF i = k THEN 1 ELSE 0]
ZeroVec == [i \in 1..Dim |-> 0]
VAdd(a, b) == [i \in 1..Dim |-> a[i] + b[i]]
VScale(c, a) == [i \in 1..Dim |-> c * a[i]]
\* the vector with first two coordinates x, y and zeros elsewhere
V(x, y) == VAdd(VScale(x, Axis(1)), VScale(y, Axis(2)))

SignedSq(x) == IF x >= 0 THEN x * x ELSE -(x * x)

----------------------------------------------------------------------------
(* Embedding store: backend/sql *)

Ids == {"a", "b", "c", "d"}
ThrDen == 10

\* 1 - (embedding <=> query_embedding), as the exact fraction sgn(c)*c^2
Similarity(emb, q) ==
    [num |-> SignedSq(Dot(emb, q)), den |-> Norm2(emb) * Norm2(q)]

\* similarity > match_threshold, match_threshold = thr / ThrDen
\* (the comparison turned round; >= in place of >)
AboveThresholdInverted(sim, thr) ==
    sim.num * ThrDen * ThrDen < SignedSq(thr) * sim.den
AboveThresholdGE(sim, thr) ==
    sim.num * ThrDen * ThrDen >= SignedSq(thr) * sim.den
AboveThreshold(sim, thr) ==
    sim.num * ThrDen * ThrDen > SignedSq(thr) * sim.den

SimLess(s1, s2) == s1.num * s2.den < s2.num * s1.den
SimEq(s1, s2) == s1.num * s2.den = s2.num * s1.den

\* a row of the result table of match_embeddings
Row(st, id, q) == [id |-> id, similarity |-> Similarity(st[id].embedding, q)]

\* WHERE clause of the four-argument variant.  A row whose embedding is
\* NULL makes the comparison NULL and is not selected.
WhereRowsNoExclude(st, q, thr, exclude_song_id) ==
    {id \in DOMAIN st :
        /\ st[id].embedding # NullVector
        /\ AboveThreshold(Similarity(st[id].embedding, q), thr)}
WhereRows(st, q, thr, exclude_song_id) ==
    {id \in DOMAIN st :
        /\ (exclude_song_id = NULL \/ id # exclude_song_id)
        /\ st[id].embedding # NullVector
        /\ AboveThreshold(Similarity(st[id].embedding, q), thr)}

Min(x, y) == IF x <= y THEN x ELSE y
Max(x, y) == IF x >= y THEN x ELSE y

\* ORDER BY embedding <=> query_embedding LIMIT match_count over the
\* selected ids: every sequence the query may return.  Ascending distance
\* is descending similarity; rows at the same distance come in any order,
\* and at the LIMIT any of them may be cut.
OrderLimitUnordered(st, ids, q, cnt) ==
    {s \in [1..Min(cnt, Cardinality(ids)) -> ids] :
        \A i, j \in DOMAIN s : i # j => s[i] # s[j]}
OrderLimit(st, ids, q, cnt) ==
    {s \in [1..Min(cnt, Cardinality(ids)) -> ids] :
        /\ \A i, j \in DOMAIN s : i # j => s[i] # s[j]
        /\ \A i, j \in DOMAIN s :
              i < j => ~SimLess(Similarity(st[s[i]].embedding, q),
                                Similarity(st[s[j]].embedding, q))
        /\ \A i \in DOMAIN s : \A o \in ids :
              (\A k \in DOMAIN s : s[k] # o) =>
                 ~SimLess(Similarity(st[s[i]].embedding, q),
                          Similarity(st[o].embedding, q))}

\* match_embeddings(query_embedding, match_threshold, match_count,
\*                  exclude_song_id DEFAULT NULL): the possible results
match_embeddings(st, q, thr, cnt, exclude_song_id) ==
    {[i \in DOMAIN s |-> Row(st, s[i], q)] :
        s \in OrderLimit(st, WhereRows(st, q, thr, exclude_song_id), q, cnt)}

\* match_embeddings(query_embedding, match_threshold, match_count): the
\* three-argument variant has no exclusion
match_embeddings3(st, q, thr, cnt) ==
    {[i \in DOMAIN s |-> Row(st, s[i], q)] :
        s \in OrderLimit(st, WhereRows(st, q, thr, NULL), q, cnt)}

\* the query raises instead of returning rows: LIMIT must not be negative
SqlRaises(cnt) == cnt < 0

----------------------------------------------------------------------------
(* Store contents and query inputs of the model *)

Emb(v) == [embedding |-> v]

\* the design document's scenario (section 8), scaled by 10
CatalogScenario ==
    [id \in {"a", "b", "c"} |->
        Emb(CASE id = "a" -> V(10, 0) [] id = "b" -> V(0, 10) [] OTHER -> V(9, 1))]
\* b and c are equidistant from a; d points away from a
CatalogTies ==
    [id \in {"a", "b", "c", "d"} |->
        Emb(CASE id = "a" -> V(2, 0) [] id = "b" -> V(1, 1)
              [] id = "c" -> V(1, -1) [] OTHER -> V(-1, 0))]
\* b was ingested but has no embedding yet; a and c are parallel
CatalogPending ==
    [id \in {"a", "b", "c", "d"} |->
        Emb(CASE id = "a" -> V(1, 0) [] id = "b" -> NullVector
              [] id = "c" -> V(2, 0) [] OTHER -> V(0, 1))]
\* few neighbours: d is only reachable with a relaxed threshold
CatalogSparse ==
    [id \in {"a", "b", "c", "d"} |->
        Emb(CASE id = "a" -> V(1, 0) [] id = "b" -> V(2, 1)
              [] id = "c" -> V(-1, -1) [] OTHER -> V(1, 3))]
CatalogEmpty == [id \in {} |-> Emb(NullVector)]

StoreChoices ==
    {CatalogScenario, CatalogTies, CatalogPending, CatalogSparse, CatalogEmpty}

QueryVectors == {V(1, 0), V(0, 1), V(1, 1), V(4, 1)}
ThresholdChoices == {-5, 0, 5, 7, 10}
\* no query made yet
NoCall == [fn |-> "none"]
ExcludeSets == {E \in SUBSET Ids : Cardinality(E) <= MaxExclude}


----------------------------------------------------------------------------
(* Song ids: text is a sequence of characters *)

UpperCase ==
    <<"A", "B", "C", "D", "E", "F", "G", "H", "I", "J", "K", "L", "M",
      "N", "O", "P", "Q", "R", "S", "T", "U", "V", "W", "X", "Y", "Z">>
LowerCase ==
    <<"a", "b", "c", "d", "e", "f", "g", "h", "i", "j", "k", "l", "m",
      "n", "o", "p", "q", "r", "s", "t", "u", "v", "w", "x", "y", "z">>
Digits == {"0", "1", "2", "3", "4", "5", "6", "7", "8", "9"}
Range(f) == {f[i] : i \in DOMAIN f}

UpperChars == Range(UpperCase)
WordChars == Range(UpperCase) \cup Range(LowerCase) \cup Digits \cup {"_"}

\* text.toLowerCase()
LowerOf(c) ==
    IF c \in UpperChars
    THEN LowerCase[CHOOSE i \in DOMAIN UpperCase : UpperCase[i] = c]
    ELSE c
toLowerCase(text) == [i \in DOMAIN text |-> LowerOf(text[i])]

\* the classes \w and \s of the regular expressions
IsWord(c) == c \in WordChars
IsSpace(c) == c \in {" ", "\t"}

\* .replace(/[^\w\s]/g, '')
RemoveSpecial(text) == SelectSeq(text, LAMBDA c : IsWord(c) \/ IsSpace(c))

\* .replace(/\s+/g, '_'): every run of whitespace becomes one underscore
RECURSIVE ReplaceWhitespace(_)
ReplaceWhitespace(text) ==
    IF text = <<>> THEN <<>>
    ELSE IF ~IsSpace(Head(text))
    THEN <<Head(text)>> \o ReplaceWhitespace(Tail(text))
    ELSE IF Len(text) > 1 /\ IsSpace(text[2])
    THEN ReplaceWhitespace(Tail(text))
    ELSE <<"_">> \o ReplaceWhitespace(Tail(text))

\* .trim()
RECURSIVE TrimStart(_)
TrimStart(text) ==
    IF text # <<>> /\ IsSpace(Head(text)) THEN TrimStart(Tail(text)) ELSE text
Reverse(text) == [i \in DOMAIN text |-> text[Len(text) + 1 - i]]
trim(text) == Reverse(TrimStart(Reverse(TrimStart(text))))

\* sanitizeForId of the import
sanitizeForId(text) ==
    trim(ReplaceWhitespace(RemoveSpecial(toLowerCase(text))))

UnknownArtist ==
    <<"U", "n", "k", "n", "o", "w", "n", " ", "A", "r", "t", "i", "s", "t">>
UnknownTrack ==
    <<"U", "n", "k", "n", "o", "w", "n", " ", "T", "r", "a", "c", "k">>

\* a track as Spotify reports it; artists holds the artists' names
SpotifyTrack(id, name, artists) == [id |-> id, name |-> name, artists |-> artists]

\* track.artists[0] || 'Unknown Artist'
FirstArtist(track) ==
    IF track.artists # <<>> /\ track.artists[1] # <<>>
    THEN track.artists[1] ELSE UnknownArtist

\* the record the import writes for a liked track
RecordOf(track, userId) ==
    LET artist == FirstArtist(track)
        title == IF track.name # <<>> THEN track.name ELSE UnknownTrack
    IN [id |-> sanitizeForId(artist) \o <<"_">> \o sanitizeForId(title),
        title |-> title, artist |-> artist, user_id |-> userId]

\* formatTrackId of the DJ booth's QueueDisplay
formatTrackId(track) ==
    LET artist == FirstArtist(track)
        title == track.name
    IN ReplaceWhitespace(RemoveSpecial(toLowerCase(artist)))
          \o <<"_">> \o ReplaceWhitespace(RemoveSpecial(toLowerCase(title)))

\* a track's uri, spotify:track:<id>
UriOf(track) ==
    <<"s", "p", "o", "t", "i", "f", "y", ":", "t", "r", "a", "c", "k", ":">>
        \o track.id

\* uri.split(':').pop()
RECURSIVE SplitPop(_)
SplitPop(text) ==
    IF \E i \in DOMAIN text : text[i] = ":"
    THEN SplitPop(SubSeq(text, 1 + (CHOOSE i \in DOMAIN text :
                                      /\ text[i] = ":"
                                      /\ \A j \in 1..(i - 1) : text[j] # ":"),
                         Len(text)))
    ELSE text

----------------------------------------------------------------------------
(* Table song_embeddings and the upsert of the import *)

Users == {"u1", "u2"}

TableRow(id, emb, title, artist, userId) ==
    [id |-> id, embedding |-> emb, title |-> title, artist |-> artist,
     user_id |-> userId]

\* the rows of a store whose songs carry no title, artist or owner
TableOf(st) == {TableRow(id, st[id].embedding, <<>>, <<>>, "") : id \in DOMAIN st}
\* the table as the similarity search reads it
StoreOf(table) ==
    [id \in {row.id : row \in table} |->
        Emb((CHOOSE row \in table : row.id = id).embedding)]

\* INSERT ... ON CONFLICT (id) DO UPDATE fails as a whole when two of its
\* records have the same id
UpsertFails(records) ==
    \E i, j \in DOMAIN records : i # j /\ records[i].id = records[j].id

EmbeddingIn(table, id) ==
    IF \E row \in table : row.id = id
    THEN (CHOOSE row \in table : row.id = id).embedding
    ELSE NullVector

\* .upsert(records, { onConflict: 'id' }): a record whose id is in the table
\* overwrites the columns it names (title, artist, user_id) and leaves the
\* embedding; any other record becomes a new row without embedding
\* (a plain insert on a table without the key; the whole row replaced)
UpsertInsertOnly(table, records) ==
    table \cup {TableRow(records[i].id, NullVector, records[i].title,
                         records[i].artist, records[i].user_id) :
                   i \in DOMAIN records}
UpsertReplaceRow(table, records) ==
    {row \in table : \A i \in DOMAIN records : records[i].id # row.id}
        \cup {TableRow(records[i].id, NullVector, records[i].title,
                       records[i].artist, records[i].user_id) :
                 i \in DOMAIN records}
Upsert(table, records) ==
    {row \in table : \A i \in DOMAIN records : records[i].id # row.id}
        \cup {TableRow(records[i].id, EmbeddingIn(table, records[i].id),
                       records[i].title, records[i].artist, records[i].user_id) :
                 i \in DOMAIN records}

----------------------------------------------------------------------------
(* The import of a user's liked songs (processUserTracks), the backend's   *)
(* embedding of the imported rows, and the clients that name a seed        *)

\* liked tracks: two releases of one song, a track without a name, a track
\* without artists
TrackGoOn ==
    SpotifyTrack(<<"1", "a">>, <<"G", "o", " ", " ", "O", "n">>,
                 << <<"A", "C", "/", "D", "C">> >>)
TrackGoOnSingle ==
    SpotifyTrack(<<"2", "b">>, <<"G", "o", " ", "O", "n", "!">>,
                 << <<"A", "C", "/", "D", "C">>, <<"X">> >>)
TrackNameless == SpotifyTrack(<<"3", "c">>, <<>>, << <<"Y", "o">> >>)
TrackNoArtist == SpotifyTrack(<<"4", "d">>, <<"U", "p">>, <<>>)
SpotifyTracks == {TrackGoOn, TrackGoOnSingle, TrackNameless, TrackNoArtist}

\* each user's liked songs as the pages Spotify serves them in: both
\* users like the song; the second has both releases of it on one page
LikedSongs(u) ==
    IF u = "u1"
    THEN << <<TrackGoOn, TrackNameless>>, <<TrackNoArtist>> >>
    ELSE << <<TrackGoOnSingle>>, <<TrackGoOn, TrackGoOnSingle>> >>

\* a user who likes no song: one page without items
NoLikedSongs == << <<>> >>

batchSize == 20
MaxImports == 2     \* imports the users start, all together
MaxEmbedded == 2    \* rows the backend embeds

EmbeddingChoices == {V(1, 0), V(2, 0), V(1, 1)}

IdleJob ==
    [pc |-> "idle", nextPages |-> <<>>, tracks |-> <<>>, i |-> 0,
     batchNumber |-> 0, inserted |-> 0, errors |-> 0, imports |-> 0,
     triggered |-> 0, sent |-> 0]
NoUpsert == [records |-> <<>>, ok |-> FALSE, wasStored |-> FALSE]
NoSong == [id |-> <<>>, embedding |-> NullVector]
NoClient ==
    [playing |-> SpotifyTrack(<<>>, <<>>, <<>>), currentTrackId |-> <<>>,
     sentBy |-> "", seed |-> <<>>]


----------------------------------------------------------------------------
(* The web application around the queue: the playback route, the Spotify   *)
(* auth callback and the player component, before any request              *)

\* Spotify devices as /v1/me/player/devices lists them
Device(id, isActive, remote) ==
    [id |-> id, is_active |-> isActive, supports_remote_control |-> remote]
NoDevice == Device("", FALSE, FALSE)
DeviceLists ==
    { <<>>,
      <<Device("d1", FALSE, TRUE)>>,
      <<Device("d1", FALSE, FALSE), Device("d2", TRUE, TRUE)>>,
      <<Device("d1", FALSE, TRUE), Device("d2", TRUE, FALSE)>>,
      <<Device("d1", FALSE, FALSE), Device("d2", FALSE, TRUE)>> }

\* devices.find(device => device.is_active) || devices[0]
TargetDevice(devices) ==
    IF \E i \in DOMAIN devices : devices[i].is_active
    THEN devices[CHOOSE i \in DOMAIN devices :
                    /\ devices[i].is_active
                    /\ \A j \in 1..(i - 1) : ~devices[j].is_active]
    ELSE devices[1]

\* HTTP statuses Spotify answers with; response.ok is a 2xx status
Statuses == {200, 401, 403, 404}
IsOk(status) == status >= 200 /\ status <= 299

\* the action of a request body: 'play', 'pause', something else, nothing
ActionChoices == {"play", "pause", "stop", ""}
\* a check that only asks for some action
ValidActionAny(action) == action # ""
ValidAction(action) == action # "" /\ action \in {"play", "pause"}

NoAnswer == [status |-> 0, success |-> FALSE]
IdlePut ==
    [pc |-> "idle", action |-> "", hasToken |-> FALSE, refreshes |-> 0,
     premium |-> FALSE, targetDevice |-> NoDevice, lookup |-> "none",
     isPlaying |-> FALSE, transferred |-> FALSE, calls |-> <<>>,
     spotifyPlaying |-> FALSE, wasPlaying |-> FALSE, response |-> NoAnswer]
\* the background work of the callback: processUserTracks, not awaited
IdleBackground ==
    [pc |-> "none", nextPages |-> <<>>, tracks |-> <<>>, i |-> 0,
     inserted |-> 0, errors |-> 0, posted |-> 0]
IdleCallback ==
    [pc |-> "idle", code |-> FALSE, next |-> "", hasToken |-> FALSE,
     userId |-> "", response |-> "", bg |-> IdleBackground]
\* a Spotify track of the player's queue; a track without uri cannot be
\* played by the Web API
QTrack(id) == [id |-> id, uri |-> id]
Unplayable(id) == [id |-> id, uri |-> ""]
NoTrack == [id |-> "", uri |-> ""]
QueueState(previous, current, next) ==
    [previousTracks |-> previous, currentTrack |-> current, nextTracks |-> next]
EmptyQueue == QueueState(<<>>, NoTrack, <<>>)

MaxNav == 2         \* clicks on the navigation controls

IdlePlayer ==
    [hasPlayer |-> FALSE, isAnimating |-> FALSE, queueState |-> EmptyQueue,
     currentFlow |-> "flow1",
     alternateFlows |-> [flow1 |-> EmptyQueue, flow3 |-> EmptyQueue],
     ops |-> <<>>, calls |-> 0, blocked |-> 0, commands |-> 0,
     snapshot |-> EmptyQueue, trail |-> <<>>]

AppIdle ==
    /\ playback = IdlePut
    /\ callback = IdleCallback
    /\ player = IdlePlayer

----------------------------------------------------------------------------
(* Queue facade, forwarding handler: POST of the /api/song-queue route that *)
(* calls the backend's /api/queue *)

Runs == {1, 2}

\* Trait values are carried in units of 1/ValueScale: ValueScale is 1.0,
\* the neutral value 0.5 is 1.
ValueScale == 2

Trait(n, v) == [name |-> n, value |-> v]

\* a request body; a missing field is "" / hasTraits = FALSE / 0
Request(song, has, traits, len) ==
    [currentSong |-> song, hasTraits |-> has, traits |-> traits,
     transitionLength |-> len]
EmptyRequest == Request("", FALSE, <<>>, 0)

\* !requestData.currentSong || !requestData.traits || !requestData.transitionLength
MissingParameters(req) ==
    req.currentSong = "" \/ ~req.hasTraits \/ req.transitionLength = 0

\* Math.max(0, Math.min(1, trait.value))
\* (the lower bound forgotten)
ClampUpperOnly(v) == Min(ValueScale, v)
Clamp(v) == Max(0, Min(ValueScale, v))

\* requestData.traits.map(trait => ({name, value: clamp(value)}))
BackendTraitsDropUnregistered(traits) ==
    SelectSeq([i \in DOMAIN traits |-> Trait(traits[i].name, Clamp(traits[i].value))],
              LAMBDA t : t.name \in {"energy", "valence"})
BackendTraits(traits) ==
    [i \in DOMAIN traits |-> Trait(traits[i].name, Clamp(traits[i].value))]

BackendRequest(req) ==
    [current_song_id |-> req.currentSong,
     traits |-> BackendTraits(req.traits),
     transition_length |-> req.transitionLength]
NoBackendRequest ==
    [current_song_id |-> "", traits |-> <<>>, transition_length |-> 0]

NoResponse == [status |-> 0, hasQueue |-> FALSE, queue |-> <<>>, error |-> ""]

\* the 400 answer of the validation
BadRequestAnswer ==
    [status |-> 400, hasQueue |-> FALSE, queue |-> <<>>,
     error |-> "Missing required parameters"]

\* response.songs.map(song => ({songID: song.id, ..., similarity}))
QueueOf(songs) ==
    [i \in DOMAIN songs |->
        [songID |-> songs[i].song_id, similarity |-> songs[i].similarity]]

\* after the fetch: a backend answer that is not ok is thrown and caught,
\* the caller gets status 500 and no queue
FacadeAnswerEmptyQueueOnError(backendResponse) ==
    [status |-> 200, hasQueue |-> TRUE,
     queue |-> QueueOf(backendResponse.songs), error |-> ""]
FacadeAnswerInvertedOk(backendResponse) ==
    IF backendResponse.ok
    THEN [status |-> 500, hasQueue |-> FALSE, queue |-> <<>>,
          error |-> "Failed to generate song queue"]
    ELSE [status |-> 200, hasQueue |-> TRUE,
          queue |-> QueueOf(backendResponse.songs), error |-> ""]
FacadeAnswer(backendResponse) ==
    IF ~backendResponse.ok
    THEN [status |-> 500, hasQueue |-> FALSE, queue |-> <<>>,
          error |-> "Failed to generate song queue"]
    ELSE [status |-> 200, hasQueue |-> TRUE,
          queue |-> QueueOf(backendResponse.songs), error |-> ""]

----------------------------------------------------------------------------
(* Backend: trait direction resolver and queue planner (design document,   *)
(* sections 4.2 and 4.3; the backend's code is not among the sources)      *)

\* axis vectors registered per trait name
AxisNames == {"energy", "valence"}
AxisOf(name) == IF name = "energy" THEN Axis(1) ELSE Axis(2)

\* step size alpha = AlphaNum / AlphaDen, threshold and its decrement over
\* ThrDen
AlphaNum == 1
AlphaDen == 2
Threshold == 2
ThresholdDecrement == 2

UnknownTrait(traits) == \E i \in DOMAIN traits : traits[i].name \notin AxisNames

\* weight = (value - 0.5) * 2, in [-1, 1]
Weight(value) == Clamp(value) - 1

\* sum of weight * axis_vector over the traits; the zero vector for none
RECURSIVE ResolveDelta(_)
ResolveDelta(traits) ==
    IF traits = <<>> THEN ZeroVec
    ELSE VAdd(VScale(Weight(Head(traits).value), AxisOf(Head(traits).name)),
              ResolveDelta(Tail(traits)))

\* target_vector = current_vector + alpha * delta, scaled by AlphaDen
\* (cosine similarity does not depend on a positive scale)
TargetVector(current_vector, delta) ==
    VAdd(VScale(AlphaDen, current_vector), VScale(AlphaNum, delta))

\* nearest(query_vector, threshold, count, exclude_ids) over the store's
\* match_embeddings: enough rows are fetched to drop the excluded ids
\* (exclude_ids not applied)
nearestNoExclude(st, q, thr, count, exclude_ids) ==
    match_embeddings3(st, q, thr, count)
nearest(st, q, thr, count, exclude_ids) ==
    {LET kept == SelectSeq(rows, LAMBDA row : row.id \notin exclude_ids)
     IN SubSeq(kept, 1, Min(count, Len(kept))) :
        rows \in match_embeddings3(st, q, thr, count + Cardinality(exclude_ids))}

\* several candidates of a query share the highest similarity (recorded
\* per run; the planner does not read it)
TiedTop(st, q, thr, exclude_ids) ==
    LET eligible == WhereRows(st, q, thr, NULL) \ exclude_ids
        sim(id) == Similarity(st[id].embedding, q)
    IN \E o1, o2 \in eligible :
          /\ o1 # o2
          /\ SimEq(sim(o1), sim(o2))
          /\ \A o \in eligible : ~SimLess(sim(o1), sim(o))

\* step 5: the run is Done when step + 1 = length
ReachedLengthLate(step, length) == step = length
ReachedLength(step, length) == step + 1 = length

\* step 4: an empty answer is retried once per step
MayRetryTwice(attempts) == attempts < 3
MayRetry(attempts) == attempts < 2

IdleRun ==
    [pc |-> "idle", request |-> EmptyRequest,
     backendRequest |-> NoBackendRequest, backendCalls |-> 0,
     state |-> "None", current_vector |-> ZeroVec, visited |-> {},
     step |-> 0, delta |-> ZeroVec, result |-> <<>>, attempts |-> 0,
     queryLog |-> <<>>, tied |-> FALSE, error |-> "",
     cancelRequested |-> FALSE, cancelledInFlight |-> FALSE,
     inFlight |-> FALSE,
     response |-> NoResponse]

----------------------------------------------------------------------------
(* Requests of the model *)

TraitChoices ==
    { <<>>,
      <<Trait("valence", 2)>>,
      <<Trait("energy", 3)>>,
      <<Trait("energy", -1), Trait("valence", 1)>>,
      <<Trait("energy", 0), Trait("rat", 2)>> }

Requests ==
    {Request(song, TRUE, traits, len) :
        song \in {"a", "z"}, traits \in TraitChoices, len \in 1..MaxLength}
    \cup {Request("", TRUE, <<>>, 1), Request("a", FALSE, <<>>, 1),
          Request("a", TRUE, <<>>, 0), Request("a", TRUE, <<>>, -1)}

ingestVars == <<song_embeddings, job, ingested, lastUpsert, upserted, client>>
appVars == <<playback, callback, player>>
unchangedStoreSide ==
    <<store, sqlCall, sqlRows, sqlCall2, sqlRows2, deployment, mockRequest,
      mockResponse, ingestVars, appVars>>

----------------------------------------------------------------------------
(* Actions of the forwarding deployment *)

\* the handler up to the fetch of /api/queue; requests take the slots in
\* the order they arrive
POST(r) ==
    \E req \in Requests :
        /\ deployment = "backend"
        /\ run[r].pc = "idle"
        /\ \A earlier \in Runs : earlier < r => run[earlier].pc # "idle"
        /\ IF MissingParameters(req)
           THEN run' = [run EXCEPT ![r].pc = "answered",
                                   ![r].request = req,
                                   ![r].response = BadRequestAnswer]
           ELSE run' = [run EXCEPT ![r].pc = "fetching",
                                   ![r].request = req,
                                   ![r].backendRequest = BackendRequest(req),
                                   ![r].backendCalls = @ + 1,
                                   ![r].state = "Received"]
        /\ UNCHANGED unchangedStoreSide

\* Seeded: load the seed's embedding, visited = {seed}, step = 0, delta
\* resolved once; a missing seed or an unregistered trait ends the run.
\* A QueueRequest has a positive length: what the backend does with any
\* other length is not described, and such a run is not followed further.
PlannerSeed(r) ==
    LET breq == run[r].backendRequest IN
    /\ run[r].state = "Received"
    /\ breq.transition_length >= 1
    /\ IF breq.current_song_id \notin DOMAIN store
       THEN run' = [run EXCEPT ![r].state = "Failed", ![r].error = "NotFound"]
       ELSE IF UnknownTrait(breq.traits)
       THEN run' = [run EXCEPT ![r].state = "Failed",
                               ![r].error = "UnknownTrait"]
       ELSE run' = [run EXCEPT
                       ![r].state = "Seeded",
                       ![r].current_vector = store[breq.current_song_id].embedding,
                       ![r].visited = {breq.current_song_id},
                       ![r].step = 0,
                       ![r].delta = ResolveDelta(breq.traits)]
    /\ UNCHANGED unchangedStoreSide

\* the visited set a run excludes: its own, owned by the request
\* (one set shared by all requests)
VisitedShared(r) == UNION {run[x].visited : x \in Runs}
VisitedOf(r) == run[r].visited

\* one nearest query of a step, from the call to the handling of its
\* answer: the first one at the threshold, the retry at the relaxed
\* threshold.  Every run record the step may leave.
StepOutcomes(r) ==
    LET me == run[r]
        thr == IF me.state = "Retrying" THEN Threshold - ThresholdDecrement
                                        ELSE Threshold
        target == TargetVector(me.current_vector, me.delta)
        answers == nearest(store, target, thr, 1, VisitedOf(r))
        logged == Append(me.queryLog, [step |-> me.step, threshold |-> thr])
    IN
    {IF rows # <<>>
     THEN [me EXCEPT
             !.result = Append(@, [song_id |-> rows[1].id,
                                   similarity |-> rows[1].similarity,
                                   step |-> me.step]),
             !.visited = @ \cup {rows[1].id},
             !.current_vector = store[rows[1].id].embedding,
             !.step = @ + 1,
             !.attempts = 0,
             !.queryLog = logged,
             !.tied = @ \/ TiedTop(store, target, thr, me.visited),
             !.state = IF ReachedLength(me.step, me.backendRequest.transition_length)
                       THEN "Done" ELSE "Stepping"]
     ELSE [me EXCEPT
             !.attempts = @ + 1,
             !.queryLog = logged,
             !.state = IF MayRetry(me.attempts + 1)
                       THEN "Retrying" ELSE "Exhausted"] :
        rows \in answers}

Stepping(r) == run[r].state \in {"Seeded", "Stepping", "Retrying"}

\* a step of a run nobody cancels: the query and its answer in one
PlannerQuery(r) ==
    /\ Stepping(r)
    /\ ~run[r].inFlight
    /\ ~run[r].cancelRequested
    /\ \E next \in StepOutcomes(r) : run' = [run EXCEPT ![r] = next]
    /\ UNCHANGED unchangedStoreSide

\* what /api/queue answers once the run has ended
BackendResponse(me) ==
    IF me.state = "Failed"
    THEN [ok |-> FALSE, songs |-> <<>>, error |-> me.error]
    ELSE [ok |-> TRUE, songs |-> me.result, error |-> ""]

\* the handler after the fetch
POST_Respond(r) ==
    /\ run[r].pc = "fetching"
    /\ run[r].state \in {"Done", "Exhausted", "Failed", "Cancelled"}
    /\ run' = [run EXCEPT ![r].pc = "answered",
                          ![r].response = FacadeAnswer(BackendResponse(run[r]))]
    /\ UNCHANGED unchangedStoreSide

----------------------------------------------------------------------------
(* Queue facade, mock handler: POST of app/api/song-queue/route.ts *)

MockSong(id, e, m, t) == [id |-> id, energy |-> e, mood |-> m, tempo |-> t]
mockSongs ==
    << MockSong("song1", 4, 3, 4),   MockSong("song2", 2, -1, 2),
       MockSong("song3", 3, 4, 3),   MockSong("song4", -2, -3, -2),
       MockSong("song5", 5, 2, 5),   MockSong("song6", -1, 1, -3),
       MockSong("song7", 3, -2, 4),  MockSong("song8", -4, 2, -4) >>
MockTraitNames == {"energy", "mood", "tempo"}
MockCap == 5
RandomTraitSpan == 11
RandomTraitOffset == 5

\* selectedSong.traits[trait.name]
MockTraitOf(song, name) ==
    CASE name = "energy" -> song.energy
      [] name = "mood" -> song.mood
      [] OTHER -> song.tempo

\* the traitValues a queue entry may get: the song's own value of a trait
\* it has, Math.floor(Math.random() * 11) - 5 for any other requested name
TraitValuesOf(song, traits) ==
    LET names == {traits[i].name : i \in DOMAIN traits} IN
    {tv \in [names -> (0 - RandomTraitOffset)..(RandomTraitSpan - 1 - RandomTraitOffset)] :
        \A n \in names : n \in MockTraitNames => tv[n] = MockTraitOf(song, n)}

\* availableSongs.splice(randomIndex, 1)
SpliceNothing(seq, k) == seq
Splice(seq, k) == [i \in 1..(Len(seq) - 1) |-> IF i < k THEN seq[i] ELSE seq[i + 1]]

\* the for loop from iteration i on: every queue it may end with
RECURSIVE MockLoop(_, _, _, _, _)
MockLoop(availableSongs, queue, i, queueLength, traits) ==
    IF ~(i < queueLength) THEN {queue}
    ELSE UNION {
        UNION {
            LET pushed == Append(queue, [songID |-> availableSongs[randomIndex].id,
                                         traitValues |-> tv])
                rest == Splice(availableSongs, randomIndex)
            IN IF Len(rest) = 0 THEN {pushed}
               ELSE MockLoop(rest, pushed, i + 1, queueLength, traits) :
            tv \in TraitValuesOf(availableSongs[randomIndex], traits)} :
        randomIndex \in 1..Len(availableSongs)}

\* queueLength = Math.min(transitionLength, 5)
\* (loop bound off by one and the cap forgotten)
MockQueueLengthOffByOne(transitionLength) == transitionLength + 1
MockQueueLength(transitionLength) == Min(transitionLength, MockCap)

\* every queue the handler may answer a valid request with
MockQueues(req) ==
    MockLoop(SelectSeq(mockSongs, LAMBDA song : song.id # req.currentSong),
             <<>>, 0, MockQueueLength(req.transitionLength), req.traits)

MaxRandomLen == 1   \* largest transitionLength with a randomly valued trait

MockRequests ==
    {Request(song, TRUE, traits, len) :
        song \in {"song1", "song9"},
        traits \in {<<>>, <<Trait("energy", 2)>>},
        len \in (1..MaxMockLen) \cup {MockCap + 1}}
    \cup {Request(song, TRUE, <<Trait("energy", 2), Trait("rat", 1)>>, len) :
        song \in {"song1", "song9"}, len \in 1..MaxRandomLen}
    \cup {Request("", TRUE, <<>>, 1), Request("song1", FALSE, <<>>, 1),
          Request("song1", TRUE, <<>>, 0), Request("song1", TRUE, <<>>, -1)}

\* the whole handler: it awaits nothing but the request body
MockPOST ==
    \E req \in MockRequests :
        /\ deployment = "mock"
        /\ mockResponse = NoResponse
        /\ mockRequest' = req
        /\ IF MissingParameters(req)
           THEN mockResponse' = BadRequestAnswer
           ELSE \E queue \in MockQueues(req) :
                   mockResponse' = [status |-> 200, hasQueue |-> TRUE,
                                    queue |-> queue, error |-> ""]
        /\ UNCHANGED <<store, sqlCall, sqlRows, sqlCall2, sqlRows2, deployment, run,
                       ingestVars, appVars>>

----------------------------------------------------------------------------
(* The queue service: one of the two handlers serves /api/song-queue *)

Init ==
    /\ deployment \in {"mock", "backend"}
    /\ store \in (IF deployment = "mock" THEN {CatalogEmpty} ELSE StoreChoices)
    /\ sqlCall = NoCall
    /\ sqlRows = <<>>
    /\ sqlCall2 = NoCall
    /\ sqlRows2 = <<>>
    /\ mockRequest = EmptyRequest
    /\ mockResponse = NoResponse
    /\ run = [r \in Runs |-> IdleRun]
    /\ song_embeddings = TableOf(store)
    /\ job = [u \in Users |-> IdleJob]
    /\ ingested = {}
    /\ lastUpsert = NoUpsert
    /\ upserted = NoSong
    /\ client = NoClient
    /\ AppIdle

Next ==
    \/ MockPOST
    \/ \E r \in Runs : POST(r)
    \/ \E r \in Runs : PlannerSeed(r)
    \/ \E r \in Runs : PlannerQuery(r)
    \/ \E r \in Runs : POST_Respond(r)

Spec == Init /\ [][Next]_vars

----------------------------------------------------------------------------
(* Planning runs that may be cancelled (design document, section 6):       *)
(* a step is the call of nearest and, later, the handling of its answer,   *)
(* and a cancellation request may arrive at any moment in between          *)

\* the request to cancel a run arrives from outside
CancelRequest(r) ==
    /\ Stepping(r)
    /\ ~run[r].cancelRequested
    /\ run' = [run EXCEPT ![r].cancelRequested = TRUE,
                          ![r].cancelledInFlight = run[r].inFlight]
    /\ UNCHANGED unchangedStoreSide

\* a run acts on a cancellation request between steps
\* (acted on at once, also while the answer of a query is awaited)
HonourCancelAtOnce(me) == me.cancelRequested
HonourCancel(me) == me.cancelRequested /\ ~me.inFlight

\* the run ends with the songs it has
PlannerCancel(r) ==
    /\ Stepping(r)
    /\ HonourCancel(run[r])
    /\ run' = [run EXCEPT ![r].state = "Cancelled"]
    /\ UNCHANGED unchangedStoreSide

\* the nearest query of a step is sent
PlannerIssue(r) ==
    /\ Stepping(r)
    /\ ~run[r].inFlight
    /\ ~run[r].cancelRequested
    /\ run' = [run EXCEPT ![r].inFlight = TRUE]
    /\ UNCHANGED unchangedStoreSide

\* its answer is handled
PlannerReceive(r) ==
    /\ Stepping(r)
    /\ run[r].inFlight
    /\ \E next \in StepOutcomes(r) :
          run' = [run EXCEPT ![r] = [next EXCEPT !.inFlight = FALSE]]
    /\ UNCHANGED unchangedStoreSide

InitCancel ==
    /\ deployment = "backend"
    /\ store \in StoreChoices
    /\ sqlCall = NoCall
    /\ sqlRows = <<>>
    /\ sqlCall2 = NoCall
    /\ sqlRows2 = <<>>
    /\ mockRequest = EmptyRequest
    /\ mockResponse = NoResponse
    /\ run = [r \in Runs |-> IdleRun]
    /\ song_embeddings = TableOf(store)
    /\ job = [u \in Users |-> IdleJob]
    /\ ingested = {}
    /\ lastUpsert = NoUpsert
    /\ upserted = NoSong
    /\ client = NoClient
    /\ AppIdle

\* one run is followed: runs do not share state, and the requests that
\* run side by side are those of Spec
CancelRuns == {1}

NextCancel ==
    \/ \E r \in CancelRuns : POST(r)
    \/ \E r \in CancelRuns : PlannerSeed(r)
    \/ \E r \in CancelRuns : PlannerIssue(r)
    \/ \E r \in CancelRuns : PlannerReceive(r)
    \/ \E r \in CancelRuns : CancelRequest(r)
    \/ \E r \in CancelRuns : PlannerCancel(r)
    \/ \E r \in CancelRuns : POST_Respond(r)

SpecCancel == InitCancel /\ [][NextCancel]_vars

----------------------------------------------------------------------------
(* Queries against the store on their own *)


\* a caller that wants exclude_ids left out calls the four-argument variant;
\* exclude_song_id takes one id
\* (one query per behaviour: the function is pure, a query changes nothing)
MatchEmbeddings ==
    \E q \in QueryVectors, thr \in ThresholdChoices, cnt \in -1..MaxCount,
       E \in ExcludeSets :
    \E x \in (IF E = {} THEN {NULL} ELSE E) :
        /\ sqlCall = NoCall
        /\ sqlCall' = [fn |-> "match_embeddings", query_embedding |-> q,
                       match_threshold |-> thr, match_count |-> cnt,
                       exclude_song_id |-> x, exclude_ids |-> E,
                       raised |-> SqlRaises(cnt)]
        /\ IF SqlRaises(cnt)
           THEN sqlRows' = <<>>
           ELSE sqlRows' \in match_embeddings(store, q, thr, cnt, x)
        /\ UNCHANGED <<store, sqlCall2, sqlRows2, deployment, mockRequest,
                       mockResponse, run, ingestVars, appVars>>

\* the three-argument variant, as the backend calls it (backend/sql/README.md)
MatchEmbeddings3 ==
    \E q \in QueryVectors, thr \in ThresholdChoices, cnt \in -1..MaxCount,
       E \in ExcludeSets :
        /\ sqlCall = NoCall
        /\ sqlCall' = [fn |-> "match_embeddings3", query_embedding |-> q,
                       match_threshold |-> thr, match_count |-> cnt,
                       exclude_song_id |-> NULL, exclude_ids |-> E,
                       raised |-> SqlRaises(cnt)]
        /\ IF SqlRaises(cnt)
           THEN sqlRows' = <<>>
           ELSE sqlRows' \in match_embeddings3(store, q, thr, cnt)
        /\ UNCHANGED <<store, sqlCall2, sqlRows2, deployment, mockRequest,
                       mockResponse, run, ingestVars, appVars>>

\* the caller repeats its query with another threshold; everything else,
\* the store included, is as before.  (Followed for the callers whose
\* exclusion the call expresses in full.)
MatchEmbeddingsAgain ==
    \E thr \in ThresholdChoices :
        /\ sqlCall # NoCall
        /\ sqlCall.exclude_ids \in {{}, {sqlCall.exclude_song_id}}
        /\ sqlCall2 = NoCall
        /\ sqlCall2' = [sqlCall EXCEPT !.match_threshold = thr]
        /\ IF SqlRaises(sqlCall.match_count)
           THEN sqlRows2' = <<>>
           ELSE IF sqlCall.fn = "match_embeddings"
           THEN sqlRows2' \in match_embeddings(store, sqlCall.query_embedding, thr,
                                              sqlCall.match_count,
                                              sqlCall.exclude_song_id)
           ELSE sqlRows2' \in match_embeddings3(store, sqlCall.query_embedding,
                                               thr, sqlCall.match_count)
        /\ UNCHANGED <<store, sqlCall, sqlRows, deployment, mockRequest,
                       mockResponse, run, ingestVars, appVars>>

InitStore ==
    /\ store \in StoreChoices
    /\ sqlCall = NoCall
    /\ sqlRows = <<>>
    /\ sqlCall2 = NoCall
    /\ sqlRows2 = <<>>
    /\ deployment = "backend"
    /\ mockRequest = EmptyRequest
    /\ mockResponse = NoResponse
    /\ run = [r \in Runs |-> IdleRun]
    /\ song_embeddings = TableOf(store)
    /\ job = [u \in Users |-> IdleJob]
    /\ ingested = {}
    /\ lastUpsert = NoUpsert
    /\ upserted = NoSong
    /\ client = NoClient
    /\ AppIdle

NextStore == MatchEmbeddings \/ MatchEmbeddings3 \/ MatchEmbeddingsAgain

SpecStore == InitStore /\ [][NextStore]_vars

----------------------------------------------------------------------------
(* Import, embedding and clients: the actions *)

queueVars ==
    <<sqlCall2, sqlRows2, deployment, mockRequest, mockResponse, run>>

\* the imports started so far, of the users in S
RECURSIVE ImportsStarted(_)
ImportsStarted(S) ==
    IF S = {} THEN 0
    ELSE LET u == CHOOSE x \in S : TRUE
         IN job[u].imports + ImportsStarted(S \ {u})

\* event app/user.tracks.process: the import of a user starts
StartImport(u) ==
    \E pages \in {LikedSongs(u), NoLikedSongs} :
        /\ job[u].pc \in {"idle", "done", "failed"}
        /\ ImportsStarted(Users) < MaxImports
        /\ job' = [job EXCEPT ![u] = [IdleJob EXCEPT !.pc = "fetching",
                                                     !.nextPages = pages,
                                                     !.imports = job[u].imports + 1,
                                                     !.triggered = job[u].triggered]]
        /\ UNCHANGED <<store, song_embeddings, ingested, lastUpsert, upserted,
                       client, sqlCall, sqlRows, queueVars, appVars>>

\* what follows a page: the next page while there is one, then the backend
\* (the backend after the first page, whatever follows)
AfterPageFirstOnly(nextPages) == "triggering"
AfterPage(nextPages) == IF nextPages # <<>> THEN "fetching" ELSE "triggering"

\* step fetch-spotify-tracks-batch-N: one page of liked songs; an answer
\* that is not ok is thrown and ends the job
FetchBatch(u) ==
    LET page == Head(job[u].nextPages)
        rest == Tail(job[u].nextPages)
    IN
    /\ job[u].pc = "fetching"
    /\ \E ok \in BOOLEAN :
          job' = IF ~ok
                 THEN [job EXCEPT ![u].batchNumber = @ + 1, ![u].pc = "failed"]
                 ELSE [job EXCEPT ![u].batchNumber = @ + 1,
                                  ![u].tracks = page,
                                  ![u].nextPages = rest,
                                  ![u].i = 0,
                                  ![u].pc = IF Len(page) > 0 THEN "processing"
                                            ELSE AfterPage(rest)]
    /\ UNCHANGED <<store, song_embeddings, ingested, lastUpsert, upserted,
                   client, sqlCall, sqlRows, queueVars, appVars>>

\* the records are in the table as they are
AlreadyStored(table, records) ==
    \A k \in DOMAIN records :
        \E row \in table :
            /\ row.id = records[k].id
            /\ row.title = records[k].title
            /\ row.artist = records[k].artist
            /\ row.user_id = records[k].user_id

\* tracks.slice(i, i + batchSize) and the records made of it
SubBatch(u) ==
    SubSeq(job[u].tracks, job[u].i + 1,
           Min(job[u].i + batchSize, Len(job[u].tracks)))
RecordTable == [u \in Users |-> [t \in SpotifyTracks |-> RecordOf(t, u)]]
RecordsOf(u) == [k \in DOMAIN SubBatch(u) |-> RecordTable[u][SubBatch(u)[k]]]

\* step process-tracks-batch-N, one turn of its loop: the upsert of a
\* sub-batch of at most batchSize records
ProcessSubBatch(u) ==
    LET me == job[u]
        subBatch == SubBatch(u)
        records == RecordsOf(u)
        error == UpsertFails(records)
        table == IF error THEN song_embeddings ELSE Upsert(song_embeddings, records)
    IN
    /\ me.pc = "processing"
    /\ me.i < Len(me.tracks)
    /\ song_embeddings' = table
    /\ store' = StoreOf(table)
    /\ job' = [job EXCEPT
                 ![u].i = @ + batchSize,
                 ![u].errors = IF error THEN @ + 1 ELSE @,
                 ![u].inserted = IF error THEN @ ELSE @ + Len(records),
                 ![u].pc = IF me.i + batchSize < Len(me.tracks) THEN "processing"
                           ELSE AfterPage(me.nextPages)]
    /\ ingested' = IF error THEN ingested
                   ELSE ingested \cup {subBatch[k].id : k \in DOMAIN subBatch}
    /\ lastUpsert' = [records |-> records, ok |-> ~error,
                      wasStored |-> AlreadyStored(song_embeddings, records)]
    /\ UNCHANGED <<upserted, client, sqlCall, sqlRows, queueVars, appVars>>

\* step trigger-backend: the POST to /process-user-tracks; an answer that
\* is not ok is thrown
TriggerBackend(u) ==
    /\ job[u].pc = "triggering"
    /\ \E ok \in BOOLEAN :
          job' = [job EXCEPT ![u].pc = IF ok THEN "done" ELSE "failed",
                             ![u].triggered = @ + 1,
                             ![u].sent = @ + 1]
    /\ UNCHANGED <<store, song_embeddings, ingested, lastUpsert, upserted,
                   client, sqlCall, sqlRows, queueVars, appVars>>

\* the store's upsert(song) of the backend's processing, which the import
\* of the row's user has triggered: an imported row gets its embedding
Embed ==
    \E row \in song_embeddings, v \in EmbeddingChoices :
        /\ row.embedding = NullVector
        /\ job[row.user_id].triggered > 0
        /\ Cardinality({other \in song_embeddings :
                           other.embedding # NullVector}) < MaxEmbedded
        /\ song_embeddings' =
              (song_embeddings \ {row}) \cup {[row EXCEPT !.embedding = v]}
        /\ store' = StoreOf(song_embeddings')
        /\ upserted' = [id |-> row.id, embedding |-> v]
        /\ UNCHANGED <<job, ingested, lastUpsert, client, sqlCall, sqlRows,
                       queueVars, appVars>>

\* the caller of that upsert asks for the nearest song to the embedding it
\* has just stored: threshold 0, count 1, nothing excluded
RoundTrip ==
    /\ upserted # NoSong
    /\ sqlCall = NoCall
    /\ sqlCall' = [fn |-> "match_embeddings",
                   query_embedding |-> upserted.embedding,
                   match_threshold |-> 0, match_count |-> 1,
                   exclude_song_id |-> NULL, exclude_ids |-> {},
                   raised |-> FALSE, song_id |-> upserted.id]
    /\ sqlRows' \in match_embeddings(store, upserted.embedding, 0, 1, NULL)
    /\ UNCHANGED <<store, song_embeddings, job, ingested, lastUpsert, upserted,
                   client, queueVars, appVars>>

\* player_state_changed: the track that plays; QueueDisplay hands
\* formatTrackId(track) to the page as currentTrackId
PlayerStateChanged ==
    \E track \in SpotifyTracks :
        /\ client = NoClient
        /\ client' = [client EXCEPT !.playing = track,
                                    !.currentTrackId = formatTrackId(track)]
        /\ UNCHANGED <<store, song_embeddings, job, ingested, lastUpsert,
                       upserted, sqlCall, sqlRows, queueVars, appVars>>

\* QueueDrawer.generateQueue: currentSong is currentTrackId
DrawerGenerateQueue ==
    /\ client.currentTrackId # <<>>
    /\ client.sentBy = ""
    /\ client' = [client EXCEPT !.sentBy = "QueueDrawer",
                                !.seed = client.currentTrackId]
    /\ UNCHANGED <<store, song_embeddings, job, ingested, lastUpsert, upserted,
                   sqlCall, sqlRows, queueVars, appVars>>

\* SpotifyPlayer.generateQueue: currentSong is the last part of the uri
PlayerGenerateQueue ==
    /\ client.playing.id # <<>>
    /\ client.sentBy = ""
    /\ client' = [client EXCEPT !.sentBy = "SpotifyPlayer",
                                !.seed = SplitPop(UriOf(client.playing))]
    /\ UNCHANGED <<store, song_embeddings, job, ingested, lastUpsert, upserted,
                   sqlCall, sqlRows, queueVars, appVars>>

InitIngest ==
    /\ song_embeddings = {}
    /\ store = StoreOf(song_embeddings)
    /\ job = [u \in Users |-> IdleJob]
    /\ ingested = {}
    /\ lastUpsert = NoUpsert
    /\ upserted = NoSong
    /\ client = NoClient
    /\ AppIdle
    /\ sqlCall = NoCall
    /\ sqlRows = <<>>
    /\ sqlCall2 = NoCall
    /\ sqlRows2 = <<>>
    /\ deployment = "backend"
    /\ mockRequest = EmptyRequest
    /\ mockResponse = NoResponse
    /\ run = [r \in Runs |-> IdleRun]

\* the imports of the users and the backend's embedding of their rows
NextIngest ==
    \/ \E u \in Users : StartImport(u)
    \/ \E u \in Users : FetchBatch(u)
    \/ \E u \in Users : ProcessSubBatch(u)
    \/ \E u \in Users : TriggerBackend(u)
    \/ Embed
    \/ RoundTrip

SpecIngest == InitIngest /\ [][NextIngest]_vars

\* the imports of the users and a player that asks for a queue
NextSeed ==
    \/ \E u \in Users : StartImport(u)
    \/ \E u \in Users : FetchBatch(u)
    \/ \E u \in Users : ProcessSubBatch(u)
    \/ \E u \in Users : TriggerBackend(u)
    \/ PlayerStateChanged
    \/ DrawerGenerateQueue
    \/ PlayerGenerateQueue

SpecSeed == InitIngest /\ [][NextSeed]_vars

----------------------------------------------------------------------------
(* The playback route: PUT /api/spotify/playback, one action per step      *)
(* between two awaits.  playback.calls lists the requests made to Supabase *)
(* and Spotify, playback.spotifyPlaying is what Spotify actually does.     *)

notPlayback ==
    <<store, sqlCall, sqlRows, queueVars, ingestVars, callback, player>>

\* return NextResponse.json({ error }, { status })
AnswerError(p, status) ==
    [p EXCEPT !.pc = "done", !.response = [status |-> status, success |-> FALSE]]
\* return NextResponse.json({ success: true })
AnswerSuccess(p) ==
    [p EXCEPT !.pc = "done", !.response = [status |-> 200, success |-> TRUE]]
\* catch (error): Internal server error
AnswerThrown(p) == AnswerError(p, 500)

Calling(p, what) == [p EXCEPT !.calls = Append(@, what)]

\* a PUT request arrives; Spotify plays something or nothing
PUT_Begin ==
    \E action \in ActionChoices, playing \in BOOLEAN :
        /\ playback.pc \in {"idle", "done"}
        /\ playback' = [IdlePut EXCEPT !.pc = "getSession", !.action = action,
                                       !.spotifyPlaying = playing,
                                       !.wasPlaying = playing]
        /\ UNCHANGED notPlayback

\* supabase.auth.getSession()
PUT_GetSession ==
    \E outcome \in {"error", "token", "noToken", "throws"} :
        LET p == Calling(playback, "getSession") IN
        /\ playback.pc = "getSession"
        /\ playback' =
              CASE outcome = "error" -> AnswerError(p, 401)
                [] outcome = "token" -> [p EXCEPT !.pc = "parse", !.hasToken = TRUE]
                [] outcome = "noToken" -> [p EXCEPT !.pc = "refresh"]
                [] outcome = "throws" -> AnswerThrown(p)
        /\ UNCHANGED notPlayback

\* supabase.auth.refreshSession()
PUT_Refresh ==
    \E outcome \in {"error", "token", "noToken", "throws"} :
        LET p == [Calling(playback, "refreshSession") EXCEPT !.refreshes = @ + 1] IN
        /\ playback.pc = "refresh"
        /\ playback' =
              CASE outcome = "error" -> AnswerError(p, 401)
                [] outcome = "noToken" -> AnswerError(p, 401)
                [] outcome = "token" -> [p EXCEPT !.pc = "parse", !.hasToken = TRUE]
                [] outcome = "throws" -> AnswerThrown(p)
        /\ UNCHANGED notPlayback

\* req.json() and the test of the action
PUT_Parse ==
    \E throws \in BOOLEAN :
        /\ playback.pc = "parse"
        /\ playback' =
              IF throws THEN AnswerThrown(playback)
              ELSE IF ~ValidAction(playback.action) THEN AnswerError(playback, 400)
              ELSE [playback EXCEPT !.pc = "me"]
        /\ UNCHANGED notPlayback

\* GET /v1/me: the subscription
PUT_Me ==
    \E status \in Statuses, product \in {"premium", "free"},
       throws \in BOOLEAN :
        LET p == Calling(playback, "me") IN
        /\ playback.pc = "me"
        /\ playback' =
              IF throws THEN AnswerThrown(p)
              ELSE IF ~IsOk(status) THEN AnswerError(p, status)
              ELSE IF product # "premium" THEN AnswerError(p, 403)
              ELSE [p EXCEPT !.pc = "devices", !.premium = TRUE]
        /\ UNCHANGED notPlayback

\* GET /v1/me/player/devices and the choice of the target device
PUT_Devices ==
    \E status \in Statuses, devices \in DeviceLists,
       throws \in BOOLEAN :
        LET p == Calling(playback, "devices") IN
        /\ playback.pc = "devices"
        /\ playback' =
              IF throws THEN AnswerThrown(p)
              ELSE IF ~IsOk(status) THEN AnswerError(p, status)
              ELSE IF Len(devices) = 0 THEN AnswerError(p, 400)
              ELSE IF ~TargetDevice(devices).supports_remote_control
                   THEN AnswerError(p, 400)
              ELSE [p EXCEPT !.pc = "lookup",
                             !.targetDevice = TargetDevice(devices)]
        /\ UNCHANGED notPlayback

\* nothing is left to do: pause while nothing plays, play while it plays
NothingToDo(action, isPlaying) ==
    (action = "pause" /\ ~isPlaying) \/ (action = "play" /\ isPlaying)
\* isPlaying after the lookup: false unless the answer is ok
IsPlayingAfter(ok, is_playing) == IF ok THEN is_playing ELSE FALSE

\* GET /v1/me/player: the playback state; an answer that is ok carries
\* is_playing or no body that json() can read
PUT_Lookup ==
    \E outcome \in {"ok", "noBody", "failed", "throws"} :
        LET p == [Calling(playback, "player") EXCEPT !.lookup = outcome]
            isPlaying == IsPlayingAfter(outcome = "ok", playback.spotifyPlaying)
        IN
        /\ playback.pc = "lookup"
        /\ playback' =
              IF outcome \in {"throws", "noBody"} THEN AnswerThrown(p)
              ELSE IF NothingToDo(p.action, isPlaying)
                   THEN AnswerSuccess([p EXCEPT !.isPlaying = isPlaying])
              ELSE [p EXCEPT !.pc = "transfer", !.isPlaying = isPlaying]
        /\ UNCHANGED notPlayback

\* PUT /v1/me/player {device_ids, play: false}, then the wait of a second
PUT_Transfer ==
    \E status \in Statuses, throws \in BOOLEAN :
        LET p == Calling(playback, "transfer") IN
        /\ playback.pc = "transfer"
        /\ playback' =
              IF throws THEN AnswerThrown(p)
              ELSE IF ~IsOk(status) THEN AnswerError(p, 400)
              ELSE IF ~p.hasToken THEN AnswerError(p, 401)
              ELSE [p EXCEPT !.pc = "command", !.transferred = TRUE]
        /\ UNCHANGED notPlayback

\* what the route answers to the status of the play/pause command
CommandAnswer(p, status) ==
    IF IsOk(status) THEN AnswerSuccess(p)
    ELSE IF status \in {401, 403} THEN AnswerError(p, 401)
    ELSE AnswerError(p, status)

\* PUT /v1/me/player/{action}; Spotify does what a command it accepts says
PUT_Command ==
    \E status \in Statuses, throws \in BOOLEAN :
        LET p == Calling(playback, playback.action) IN
        /\ playback.pc = "command"
        /\ playback' =
              IF throws THEN AnswerThrown(p)
              ELSE [CommandAnswer(p, status) EXCEPT
                      !.spotifyPlaying = IF IsOk(status) THEN p.action = "play"
                                         ELSE @]
        /\ UNCHANGED notPlayback

\* the application before any request, with an empty table
InitApp == InitIngest
NextPlayback ==
    \/ PUT_Begin
    \/ PUT_GetSession
    \/ PUT_Refresh
    \/ PUT_Parse
    \/ PUT_Me
    \/ PUT_Devices
    \/ PUT_Lookup
    \/ PUT_Transfer
    \/ PUT_Command

SpecPlayback == InitApp /\ [][NextPlayback]_vars

----------------------------------------------------------------------------
(* The Spotify auth callback: GET of the callback route, and the work it   *)
(* starts without awaiting it (triggerBackgroundProcessing)                *)

notCallback ==
    <<sqlCall, sqlRows, queueVars, job, ingested, lastUpsert, upserted, client,
      playback, player>>

NextChoices == {"/", "/djbooth", "/profile"}
AuthError == "/auth-error"
MissingSession == "/auth-error?reason=missing_session"
MissingToken == "/auth-error?reason=missing_token"

\* return NextResponse.redirect(new URL(location, origin))
Redirect(c, location) == [c EXCEPT !.pc = "responded", !.response = location]

\* the redirect for a session that cannot be used, "" for one that can
SessionCheckNoToken(hasSession, hasToken) ==
    IF ~hasSession THEN MissingSession ELSE ""
SessionCheck(hasSession, hasToken) ==
    IF ~hasSession THEN MissingSession
    ELSE IF ~hasToken THEN MissingToken
    ELSE ""

\* the background work is over, one way or the other
BackgroundOver(bg) == bg.pc \in {"none", "completed", "skipped", "caught"}

\* a GET arrives, with or without a code; without one the redirect to
\* next is returned at once
GET_Begin ==
    \E code \in BOOLEAN, next \in NextChoices :
        LET c == [IdleCallback EXCEPT !.code = code, !.next = next] IN
        /\ callback.pc \in {"idle", "responded"}
        /\ BackgroundOver(callback.bg)
        /\ callback' = IF code THEN [c EXCEPT !.pc = "exchange"]
                       ELSE Redirect(c, next)
        /\ UNCHANGED <<store, song_embeddings>>
        /\ UNCHANGED notCallback

\* supabase.auth.exchangeCodeForSession(code)
GET_Exchange ==
    \E error \in BOOLEAN :
        /\ callback.pc = "exchange"
        /\ callback' = IF error THEN Redirect(callback, AuthError)
                       ELSE [callback EXCEPT !.pc = "getSession"]
        /\ UNCHANGED <<store, song_embeddings>>
        /\ UNCHANGED notCallback

\* supabase.auth.getSession() and the test of the provider token
GET_GetSession ==
    \E hasSession \in BOOLEAN, hasToken \in BOOLEAN :
        LET location == SessionCheck(hasSession, hasToken) IN
        /\ callback.pc = "getSession"
        /\ callback' =
              IF location # "" THEN Redirect(callback, location)
              ELSE [callback EXCEPT !.pc = "getUser",
                                    !.hasToken = hasSession /\ hasToken]
        /\ UNCHANGED <<store, song_embeddings>>
        /\ UNCHANGED notCallback

\* triggerBackgroundProcessing: the async function is called and not
\* awaited; it has sent its first request when the call returns
Started(pages) == [IdleBackground EXCEPT !.pc = "fetching", !.nextPages = pages]

\* supabase.auth.getUser(); with a user the background work is started
\* (pages: what Spotify will serve it); then, whatever happened, the
\* redirect to next is returned
GET_GetUser ==
    \E outcome \in {"user", "noUser", "authError", "throws"}, u \in Users :
      \E pages \in {LikedSongs(u), NoLikedSongs} :
        /\ callback.pc = "getUser"
        /\ callback' =
              IF outcome = "user"
              THEN [Redirect(callback, callback.next) EXCEPT
                       !.userId = u, !.bg = Started(pages)]
              ELSE Redirect(callback, callback.next)
        /\ UNCHANGED <<store, song_embeddings>>
        /\ UNCHANGED notCallback

\* catch (error) of the background function: the error is logged
Caught(bg) == [bg EXCEPT !.pc = "caught"]

\* fetchUserLikedSongs, one turn of its loop: a page is added to the
\* tracks, and the loop ends when there is no next page; an answer that is
\* not ok is thrown
BG_FetchLikedSongs ==
    \E ok \in BOOLEAN :
        LET page == Head(callback.bg.nextPages)
            rest == Tail(callback.bg.nextPages)
        IN
        /\ callback.bg.pc = "fetching"
        /\ callback' =
              [callback EXCEPT !.bg =
                  IF ~ok THEN Caught(@)
                  ELSE [@ EXCEPT !.tracks = @ \o page,
                                 !.nextPages = rest,
                                 !.pc = IF rest # <<>> THEN "fetching"
                                        ELSE "creating"]]
        /\ UNCHANGED <<store, song_embeddings>>
        /\ UNCHANGED notCallback

\* createSongEmbeddingRecords, one turn of its loop: the upsert of a batch;
\* after the last batch processUserTracks goes on
BG_CreateRecords ==
    LET bg == callback.bg
        batch == SubSeq(bg.tracks, bg.i + 1, Min(bg.i + batchSize, Len(bg.tracks)))
        records == [k \in DOMAIN batch |-> RecordTable[callback.userId][batch[k]]]
        more == bg.i < Len(bg.tracks)
        error == UpsertFails(records)
        table == IF more /\ ~error THEN Upsert(song_embeddings, records)
                 ELSE song_embeddings
    IN
    /\ bg.pc = "creating"
    /\ song_embeddings' = table
    /\ store' = StoreOf(table)
    /\ callback' =
          [callback EXCEPT !.bg =
              IF more
              THEN [@ EXCEPT !.i = @ + batchSize,
                             !.errors = IF error THEN @ + 1 ELSE @,
                             !.inserted = IF error THEN @ ELSE @ + Len(records)]
              ELSE [@ EXCEPT !.pc = IF bg.inserted > 0 THEN "posting"
                                    ELSE "skipped"]]
    /\ UNCHANGED notCallback

\* the POST to /process-user-tracks; an answer that is not ok is thrown
BG_Post ==
    \E ok \in BOOLEAN :
        /\ callback.bg.pc = "posting"
        /\ callback' =
              [callback EXCEPT !.bg =
                  IF ok THEN [@ EXCEPT !.pc = "completed", !.posted = @ + 1]
                  ELSE Caught([@ EXCEPT !.posted = @ + 1])]
        /\ UNCHANGED <<store, song_embeddings>>
        /\ UNCHANGED notCallback

NextCallback ==
    \/ GET_Begin
    \/ GET_Exchange
    \/ GET_GetSession
    \/ GET_GetUser
    \/ BG_FetchLikedSongs
    \/ BG_CreateRecords
    \/ BG_Post

SpecCallback == InitApp /\ [][NextCallback]_vars

----------------------------------------------------------------------------
(* SpotifyPlayer: nextTrack, previousTrack and changeFlow.  player.ops     *)
(* holds the calls that have not come to their end: what each awaits, or   *)
(* the timer it has set.  player.trail lists what touched the queue state  *)
(* since the last nextTrack took player.snapshot.                          *)

notPlayer ==
    <<store, sqlCall, sqlRows, queueVars, ingestVars, playback, callback>>

QueueCap == 5
\* array.slice(0, n) and array.slice(n)
Take(seq, n) == SubSeq(seq, 1, Min(n, Len(seq)))
Drop(seq, n) == SubSeq(seq, n + 1, Len(seq))

\* track windows the player reports: a short queue, a long history, a long
\* queue, nothing
QueueChoices ==
    { QueueState(<<>>, QTrack("t1"), <<QTrack("t2"), QTrack("t3")>>),
      QueueState(<<QTrack("p1"), QTrack("p2"), QTrack("p3"), QTrack("p4"),
                   QTrack("p5")>>, QTrack("t1"), <<QTrack("t2")>>),
      QueueState(<<QTrack("p1")>>, QTrack("t1"),
                 <<QTrack("t2"), QTrack("t3"), QTrack("t4"), QTrack("t5"),
                   QTrack("t6"), QTrack("t7")>>),
      QueueState(<<>>, QTrack("t1"), <<>>) }
\* what /v1/me/player/queue answers
SpotifyQueues == { <<>>, <<QTrack("t2"), QTrack("t3"), QTrack("t9")>> }
\* the alternate flows once updateAlternateFlows has run: flow1 can be
\* played, no track of flow3 has a uri
ShuffledFlows ==
    [flow1 |-> QueueState(<<>>, QTrack("s1"), <<Unplayable("s2"), QTrack("s3")>>),
     flow3 |-> QueueState(<<>>, Unplayable("s4"), <<>>)]
Flows == {"flow1", "flow2", "flow3"}

\* the updater of nextTrack
QueueAfterNext(prevState) ==
    IF prevState.currentTrack = NoTrack \/ Len(prevState.nextTracks) = 0
    THEN prevState
    ELSE QueueState(Take(<<prevState.currentTrack>> \o prevState.previousTracks,
                         QueueCap),
                    prevState.nextTracks[1],
                    Drop(prevState.nextTracks, 1))
\* the updater of previousTrack (one that drops the current track)
QueueAfterPreviousDropsCurrent(prevState) ==
    IF prevState.currentTrack = NoTrack \/ Len(prevState.previousTracks) = 0
    THEN prevState
    ELSE QueueState(Drop(prevState.previousTracks, 1),
                    prevState.previousTracks[1],
                    Take(prevState.nextTracks, QueueCap))
QueueAfterPrevious(prevState) ==
    IF prevState.currentTrack = NoTrack \/ Len(prevState.previousTracks) = 0
    THEN prevState
    ELSE QueueState(Drop(prevState.previousTracks, 1),
                    prevState.previousTracks[1],
                    Take(<<prevState.currentTrack>> \o prevState.nextTracks,
                         QueueCap))
\* the updater of nextTrack's queue fetch
QueueWithAdditional(prevState, queue) ==
    [prevState EXCEPT !.nextTracks = @ \o Drop(queue, Len(@))]

\* [newQueue.currentTrack, ...newQueue.nextTracks].filter(track => track?.uri)
RECURSIVE WithUri(_)
WithUri(tracks) ==
    IF tracks = <<>> THEN <<>>
    ELSE IF Head(tracks).uri # "" THEN <<Head(tracks)>> \o WithUri(Tail(tracks))
    ELSE WithUri(Tail(tracks))

\* the guard of the three operations: nothing happens while isAnimating
BusyNever(p) == FALSE
Busy(p) == p.isAnimating

Op(kind, pc) == [kind |-> kind, pc |-> pc, flow |-> "", tracksToAdd |-> <<>>]
\* the operations but the k-th
Without(ops, k) == SubSeq(ops, 1, k - 1) \o SubSeq(ops, k + 1, Len(ops))
\* something touched the queue state
Trailing(p, what) ==
    IF Len(p.trail) < 3 THEN [p EXCEPT !.trail = Append(@, what)] ELSE p
\* an operation comes to its end
OpEnds(p, k) == [p EXCEPT !.ops = Without(@, k)]
\* setIsAnimating(false); setAnimationDirection(null)
AnimationOver(p) == [p EXCEPT !.isAnimating = FALSE]

\* a click arrives: counted, and counted as blocked when an operation has
\* not come to its end
Clicked(p) ==
    [p EXCEPT !.calls = @ + 1,
              !.blocked = IF p.ops # <<>> THEN @ + 1 ELSE @]

\* player.connect() and setPlayer(player)
PlayerReady ==
    /\ ~player.hasPlayer
    /\ player' = [player EXCEPT !.hasPlayer = TRUE]
    /\ UNCHANGED notPlayer

\* player_state_changed: the queue state is the track window
TrackWindowChanged ==
    \E q \in QueueChoices :
        /\ player.hasPlayer
        /\ player.queueState # q
        /\ player' = Trailing([player EXCEPT !.queueState = q], "event")
        /\ UNCHANGED notPlayer

\* updateAlternateFlows
UpdateAlternateFlows ==
    /\ player.hasPlayer
    /\ player.alternateFlows # ShuffledFlows
    /\ player' = [player EXCEPT !.alternateFlows = ShuffledFlows]
    /\ UNCHANGED notPlayer

\* a click on next: nextTrack() up to its first await
NextTrackCall ==
    LET p == Clicked(player) IN
    /\ player.calls < MaxNav
    /\ player' =
          IF ~p.hasPlayer \/ Busy(p) THEN p
          ELSE [p EXCEPT !.isAnimating = TRUE,
                         !.snapshot = p.queueState,
                         !.trail = <<"next">>,
                         !.queueState = QueueAfterNext(@),
                         !.commands = @ + 1,
                         !.ops = Append(@, Op("next", "player"))]
    /\ UNCHANGED notPlayer

\* a click on previous: previousTrack() up to its first await
PreviousTrackCall ==
    LET p == Clicked(player) IN
    /\ player.calls < MaxNav
    /\ player' =
          IF ~p.hasPlayer \/ Busy(p) \/ Len(p.queueState.previousTracks) = 0
          THEN p
          ELSE [Trailing(p, "previous") EXCEPT
                         !.isAnimating = TRUE,
                         !.queueState = QueueAfterPrevious(@),
                         !.commands = @ + 1,
                         !.ops = Append(@, Op("previous", "player"))]
    /\ UNCHANGED notPlayer

\* a click on a flow: changeFlow(flow) up to its first await or timer
ChangeFlowCall ==
    \E flow \in Flows :
        LET p == Clicked(player)
            newQueue == IF flow \in {"flow1", "flow3"}
                        THEN p.alternateFlows[flow] ELSE EmptyQueue
            op == [Op("flow", IF newQueue.currentTrack # NoTrack THEN "token"
                              ELSE "timer250")
                     EXCEPT !.flow = flow,
                            !.tracksToAdd = WithUri(<<newQueue.currentTrack>>
                                                      \o newQueue.nextTracks)]
        IN
        /\ player.calls < MaxNav
        /\ player' =
              IF p.currentFlow = flow \/ Busy(p) THEN p
              ELSE [p EXCEPT !.isAnimating = TRUE, !.ops = Append(@, op)]
        /\ UNCHANGED notPlayer

\* player.nextTrack() or player.previousTrack() settles: rejected, the
\* function ends there; resolved, nextTrack goes on to the queue and
\* previousTrack sets its timer
PlayerCallSettles ==
    \E k \in DOMAIN player.ops, rejected \in BOOLEAN :
        /\ player.ops[k].pc = "player"
        /\ player' =
              IF rejected THEN OpEnds(player, k)
              ELSE [player EXCEPT
                      !.ops[k].pc = IF player.ops[k].kind = "next" THEN "queue"
                                    ELSE "timer500"]
        /\ UNCHANGED notPlayer

\* nextTrack: getValidToken() and the fetch of /v1/me/player/queue
NextTrackQueue ==
    \E k \in DOMAIN player.ops,
       outcome \in {"noToken", "tokenThrows", "ok", "notOk", "fetchThrows"},
       queue \in SpotifyQueues :
        /\ player.ops[k].pc = "queue"
        /\ player' =
              CASE outcome = "tokenThrows" -> OpEnds(player, k)
                [] outcome = "ok" /\ Len(queue) > 0 ->
                      [player EXCEPT
                          !.ops[k].pc = "timer500",
                          !.queueState = QueueWithAdditional(@, queue),
                          !.trail = IF QueueWithAdditional(player.queueState, queue)
                                         # player.queueState
                                    THEN Append(@, "added") ELSE @]
                [] OTHER -> [player EXCEPT !.ops[k].pc = "timer500"]
        /\ UNCHANGED notPlayer

\* changeFlow: getValidToken(); without a token the function ends
ChangeFlowToken ==
    \E k \in DOMAIN player.ops, outcome \in {"noToken", "tokenThrows", "token"} :
        /\ player.ops[k].pc = "token"
        /\ player' = IF outcome = "token"
                     THEN [player EXCEPT !.ops[k].pc = "state"]
                     ELSE OpEnds(player, k)
        /\ UNCHANGED notPlayer

\* changeFlow: the fetch of /v1/me/player and the test of tracksToAdd
ChangeFlowState ==
    \E k \in DOMAIN player.ops, outcome \in {"ok", "notOk", "throws"} :
        LET tracksToAdd == player.ops[k].tracksToAdd IN
        /\ player.ops[k].pc = "state"
        /\ player' =
              CASE outcome = "throws" -> AnimationOver(OpEnds(player, k))
                [] outcome = "notOk" -> OpEnds(player, k)
                [] OTHER ->
                      IF Len(tracksToAdd) > 0
                      THEN [player EXCEPT !.ops[k].pc = "play"]
                      ELSE OpEnds(player, k)
        /\ UNCHANGED notPlayer

\* changeFlow: PUT /v1/me/player/play and the POSTs to the queue
ChangeFlowPlay ==
    \E k \in DOMAIN player.ops, throws \in BOOLEAN :
        /\ player.ops[k].pc = "play"
        /\ player' =
              IF throws
              THEN AnimationOver(OpEnds([player EXCEPT !.commands = @ + 1], k))
              ELSE [player EXCEPT !.commands = @ + 1,
                                  !.ops[k].pc = "timer250"]
        /\ UNCHANGED notPlayer

\* changeFlow: the timer of 250 ms fires
ChangeFlowTimer ==
    \E k \in DOMAIN player.ops :
        LET op == player.ops[k]
            p == [player EXCEPT !.currentFlow = op.flow,
                                !.ops[k].pc = "timer500"]
        IN
        /\ op.pc = "timer250"
        /\ player' =
              IF Len(op.tracksToAdd) > 0
              THEN Trailing([p EXCEPT !.queueState =
                                QueueState(<<>>, op.tracksToAdd[1],
                                           Drop(op.tracksToAdd, 1))], "flow")
              ELSE p
        /\ UNCHANGED notPlayer

\* the timer of 500 ms fires: the operation is over
AnimationTimer ==
    \E k \in DOMAIN player.ops :
        /\ player.ops[k].pc = "timer500"
        /\ player' = AnimationOver(OpEnds(player, k))
        /\ UNCHANGED notPlayer

NextPlayer ==
    \/ PlayerReady
    \/ TrackWindowChanged
    \/ UpdateAlternateFlows
    \/ NextTrackCall
    \/ PreviousTrackCall
    \/ ChangeFlowCall
    \/ PlayerCallSettles
    \/ NextTrackQueue
    \/ ChangeFlowToken
    \/ ChangeFlowState
    \/ ChangeFlowPlay
    \/ ChangeFlowTimer
    \/ AnimationTimer

SpecPlayer == InitApp /\ [][NextPlayer]_vars

----------------------------------------------------------------------------
(* Claims about the embedding store, checked under SpecStore *)

Called == sqlCall.fn # "none"
Returned == {sqlRows[i].id : i \in DOMAIN sqlRows}
\* the ids the WHERE clause would select with no exclusion at all
Qualifying ==
    WhereRows(store, sqlCall.query_embedding, sqlCall.match_threshold, NULL)
\* ids in ascending (text) order
IdOrder == <<"a", "b", "c", "d">>
IdRank(id) == CHOOSE k \in DOMAIN IdOrder : IdOrder[k] = id

C6_CountAndStrictThreshold ==
    (Called /\ sqlCall.match_count >= 0) =>
        /\ ~sqlCall.raised
        /\ Len(sqlRows) <= sqlCall.match_count
        /\ \A i \in DOMAIN sqlRows :
              sqlRows[i].similarity.num * ThrDen * ThrDen
                 > SignedSq(sqlCall.match_threshold) * sqlRows[i].similarity.den
        /\ \A i \in DOMAIN sqlRows :
              /\ sqlRows[i].id \in DOMAIN store
              /\ sqlRows[i].similarity
                    = Similarity(store[sqlRows[i].id].embedding,
                                 sqlCall.query_embedding)

\* some song's similarity equals the threshold and it is left out although
\* the LIMIT was not reached, while other songs are returned
C6_Witness ==
    /\ Called /\ ~sqlCall.raised
    /\ sqlRows # <<>>
    /\ Len(sqlRows) < sqlCall.match_count
    /\ \E id \in DOMAIN store :
          /\ store[id].embedding # NullVector
          /\ id \notin Returned
          /\ id \notin sqlCall.exclude_ids
          /\ LET sim == Similarity(store[id].embedding, sqlCall.query_embedding)
             IN sim.num * ThrDen * ThrDen
                   = SignedSq(sqlCall.match_threshold) * sim.den

----------------------------------------------------------------------------
(* Claims about the queue service, checked under Spec *)

SongIds(queue) == {queue[i].songID : i \in DOMAIN queue}
NoDuplicates(queue) ==
    \A i, j \in DOMAIN queue : i # j => queue[i].songID # queue[j].songID
Terminal(r) == run[r].state \in {"Done", "Exhausted"}
Ended(r) == run[r].state \in {"Done", "Exhausted", "Failed"}
Answered(r) == run[r].pc = "answered"
LogOfStep(r, k) == {i \in DOMAIN run[r].queryLog : run[r].queryLog[i].step = k}
\* a valid QueueRequest: a seed id, a traits list, a positive length
ValidRequest(req) ==
    req.currentSong # "" /\ req.hasTraits /\ req.transitionLength >= 1

\* C1: a returned queue holds no song id twice and never the seed
\* (currently playing) song, from the mock handler and from the planner
\* behind the forwarding handler alike.
C1_UniqueAndNoSeed ==
    /\ mockResponse.hasQueue =>
          /\ NoDuplicates(mockResponse.queue)
          /\ mockRequest.currentSong \notin SongIds(mockResponse.queue)
    /\ \A r \in Runs :
          run[r].response.hasQueue =>
             /\ NoDuplicates(run[r].response.queue)
             /\ run[r].request.currentSong \notin SongIds(run[r].response.queue)

\* the seed is a song of the catalog and several songs were drawn
C1_Witness ==
    /\ mockResponse.status = 200
    /\ mockRequest.currentSong = "song1"
    /\ Len(mockResponse.queue) >= 2

\* C2: the queue returned for a valid request has at most transitionLength
\* songs, also when it is the backend's song list forwarded by the facade.
C2_AtMostRequestedLength ==
    /\ (mockResponse.hasQueue /\ ValidRequest(mockRequest)) =>
          Len(mockResponse.queue) <= mockRequest.transitionLength
    /\ \A r \in Runs :
          run[r].response.hasQueue =>
             /\ Len(run[r].response.queue) <= run[r].request.transitionLength
             /\ Len(run[r].response.queue) = Len(run[r].result)

\* exactly the requested number of songs is returned, more than one
C2_Witness ==
    /\ mockResponse.status = 200
    /\ mockRequest.transitionLength >= 2
    /\ Len(mockResponse.queue) = mockRequest.transitionLength

\* C3: a planning run ends as Done with exactly `length` songs, or as
\* Exhausted with the songs of the steps that succeeded, fewer than
\* `length`; both are final, and both are answered as a success that
\* carries those songs.
C3_StateInvariant ==
    \A r \in Runs :
        LET me == run[r] IN
        /\ me.state = "Done" =>
              Len(me.result) = me.backendRequest.transition_length
        /\ me.state = "Exhausted" =>
              /\ Len(me.result) < me.backendRequest.transition_length
              /\ Len(me.result) = me.step
        /\ Terminal(r) =>
              /\ \A i \in DOMAIN me.result : me.result[i].step = i - 1
              /\ BackendResponse(me).ok
        /\ (Terminal(r) /\ Answered(r)) =>
              /\ me.response.status = 200
              /\ me.response.hasQueue
              /\ Len(me.response.queue) = Len(me.result)
              /\ \A i \in DOMAIN me.result :
                    me.response.queue[i].songID = me.result[i].song_id

\* a run that is Done or Exhausted stays so, with the same songs
C3_StaysTerminal ==
    \A r \in Runs :
        Terminal(r) => /\ run'[r].state = run[r].state
                       /\ run'[r].result = run[r].result

\* C3, both parts: the lengths in the terminal states and their finality
C3_TerminalStates == []C3_StateInvariant /\ [][C3_StaysTerminal]_vars

\* three songs asked, two eligible: Exhausted with two songs, answered 200
C3_Witness ==
    \E r \in Runs :
        /\ run[r].state = "Exhausted"
        /\ run[r].backendRequest.transition_length = 3
        /\ Len(run[r].result) = 2
        /\ Answered(r)
        /\ run[r].response.status = 200

\* C4: an empty answer is retried once, for the same step, at the threshold
\* lowered by the decrement; a second empty answer ends the run Exhausted.
\* A step makes at most two queries and a run of length n at most 2n.
C4_RetryOnce ==
    \A r \in Runs :
        LET me == run[r]
            log == me.queryLog
        IN
        /\ \A k \in 0..MaxLength + 1 :
              /\ Cardinality(LogOfStep(r, k)) <= 2
              /\ \A i, j \in LogOfStep(r, k) :
                    i < j => /\ j = i + 1
                             /\ log[i].threshold = Threshold
                             /\ log[j].threshold = Threshold - ThresholdDecrement
        /\ \A i \in DOMAIN log :
              (i = 1 \/ log[i - 1].step # log[i].step) =>
                 log[i].threshold = Threshold
        /\ me.backendRequest.transition_length >= 1 =>
              Len(log) <= 2 * me.backendRequest.transition_length
        /\ me.state = "Retrying" =>
              /\ me.attempts = 1
              /\ log[Len(log)] = [step |-> me.step, threshold |-> Threshold]
        /\ me.state = "Exhausted" =>
              /\ Len(log) >= 2
              /\ log[Len(log) - 1] = [step |-> me.step, threshold |-> Threshold]
              /\ log[Len(log)] =
                    [step |-> me.step,
                     threshold |-> Threshold - ThresholdDecrement]

\* a retry that found a song: the step was queried twice and has a song
C4_Witness ==
    \E r \in Runs :
        /\ run[r].state = "Done"
        /\ \E k \in 0..MaxLength :
              /\ Cardinality(LogOfStep(r, k)) = 2
              /\ \E i \in DOMAIN run[r].result : run[r].result[i].step = k

C9_SeedNotFound ==
    \A r \in Runs :
        LET me == run[r] IN
        (me.state \notin {"None", "Received"}
            /\ me.backendRequest.current_song_id \notin DOMAIN store)
        => /\ me.state = "Failed"
           /\ me.error = "NotFound"
           /\ me.result = <<>>
           /\ me.queryLog = <<>>
           /\ me.backendCalls = 1
           /\ Answered(r) =>
                 /\ me.response.status = 500
                 /\ ~me.response.hasQueue
                 /\ me.response.queue = <<>>

\* an answered request whose seed is missing from a store that has songs
C9_Witness ==
    \E r \in Runs :
        /\ Answered(r)
        /\ run[r].request.currentSong = "z"
        /\ DOMAIN store # {}
        /\ run[r].error = "NotFound"
        /\ run[r].response.status = 500

C11_TraitValuesClamped ==
    \A r \in Runs :
        LET me == run[r] IN
        (me.pc # "idle" /\ ~MissingParameters(me.request)) =>
            /\ Len(me.backendRequest.traits) = Len(me.request.traits)
            /\ \A i \in DOMAIN me.request.traits :
                  LET sent == me.request.traits[i]
                      handed == me.backendRequest.traits[i]
                  IN /\ handed.name = sent.name
                     /\ handed.value \in 0..ValueScale
                     /\ sent.value < 0 => handed.value = 0
                     /\ sent.value > ValueScale => handed.value = ValueScale
                     /\ sent.value \in 0..ValueScale => handed.value = sent.value

\* one request with a value below 0 next to a value in range, another with
\* a value above 1: both were handed to the backend
C11_Witness ==
    /\ \E r \in Runs :
          /\ run[r].backendCalls = 1
          /\ \E i, j \in DOMAIN run[r].request.traits :
                /\ i < j
                /\ run[r].request.traits[i].value < 0
                /\ run[r].backendRequest.traits[i].value = 0
                /\ run[r].request.traits[j].value \in 1..(ValueScale - 1)
                /\ run[r].backendRequest.traits[j] = run[r].request.traits[j]
    /\ \E r \in Runs :
          /\ run[r].backendCalls = 1
          /\ \E i \in DOMAIN run[r].request.traits :
                /\ run[r].request.traits[i].value > ValueScale
                /\ run[r].backendRequest.traits[i].value = ValueScale

\* C12 as stated: the facade calls the backend (or builds a queue itself)
\* only for a request with a seed id, a traits list and a positive length;
\* every other request is answered with an error and the backend is not
\* called.
C12_OnlyValidRequestsReachBackend ==
    /\ (mockResponse.status # 0 /\ ~ValidRequest(mockRequest)) =>
          /\ mockResponse.status >= 400
          /\ ~mockResponse.hasQueue
    /\ \A r \in Runs :
          (run[r].pc # "idle" /\ ~ValidRequest(run[r].request)) =>
             /\ run[r].backendCalls = 0
             /\ run[r].pc = "answered"
             /\ run[r].response.status >= 400

\* C15: a run is cancelled only between steps, never while a nearest
\* query is in flight, and a cancelled run returns as a success exactly
\* the songs of the steps completed so far.
C15_CancelledState ==
    \A r \in Runs :
        LET me == run[r] IN
        me.state = "Cancelled" =>
            /\ me.cancelRequested
            /\ ~me.inFlight
            /\ Len(me.result) = me.step
            /\ \A i \in DOMAIN me.result : me.result[i].step = i - 1
            /\ me.visited = {me.backendRequest.current_song_id}
                               \cup {me.result[i].song_id : i \in DOMAIN me.result}
            /\ BackendResponse(me).ok
            /\ BackendResponse(me).songs = me.result
            /\ Answered(r) =>
                  /\ me.response.status = 200
                  /\ me.response.hasQueue
                  /\ me.response.queue = QueueOf(me.result)

\* the step into Cancelled is taken with no query in flight and leaves the
\* songs alone; a cancelled run stays cancelled with the same songs
C15_CancelStep ==
    \A r \in Runs :
        /\ (run'[r].state = "Cancelled" /\ run[r].state # "Cancelled") =>
              /\ ~run[r].inFlight
              /\ run'[r].result = run[r].result
              /\ run'[r].visited = run[r].visited
        /\ run[r].state = "Cancelled" =>
              /\ run'[r].state = "Cancelled"
              /\ run'[r].result = run[r].result

\* C15, both parts
C15_CancelBetweenSteps == []C15_CancelledState /\ [][C15_CancelStep]_vars

\* the request to cancel arrived while the second query was in flight; the
\* run ended Cancelled with the songs of both steps, one short of the
\* length asked, and was answered 200
C15_Witness ==
    \E r \in Runs :
        /\ run[r].state = "Cancelled"
        /\ run[r].cancelledInFlight
        /\ Len(run[r].result) = 2
        /\ run[r].backendRequest.transition_length = 3
        /\ Answered(r)
        /\ run[r].response.status = 200

\* the queues a run of this request may return when it runs alone: the
\* planner's steps over the store, with nothing else going on
RECURSIVE PlanAlone(_, _, _, _, _, _, _)
PlanAlone(st, current_vector, delta, visited, step, length, ids) ==
    LET target == TargetVector(current_vector, delta)
        first == nearest(st, target, Threshold, 1, visited)
        answers == IF first = {<<>>}
                   THEN nearest(st, target, Threshold - ThresholdDecrement,
                                1, visited)
                   ELSE first
    IN UNION {
         IF rows = <<>> THEN {ids}
         ELSE IF step + 1 = length THEN {Append(ids, rows[1].id)}
         ELSE PlanAlone(st, st[rows[1].id].embedding, delta,
                        visited \cup {rows[1].id}, step + 1, length,
                        Append(ids, rows[1].id)) :
         rows \in answers}

QueuesAlone(breq) ==
    PlanAlone(store, store[breq.current_song_id].embedding,
              ResolveDelta(breq.traits), {breq.current_song_id}, 0,
              breq.transition_length, <<>>)

\* C16: runs that execute side by side on the same store do not interfere:
\* each run returns a queue it may return when run alone, and its visited
\* set holds its own seed and its own songs only.
C16_ResultAsAlone ==
    \A r \in Runs :
        LET me == run[r] IN
        /\ Terminal(r) =>
              [i \in DOMAIN me.result |-> me.result[i].song_id]
                  \in QueuesAlone(me.backendRequest)
        /\ me.state \in {"Seeded", "Stepping", "Retrying", "Done", "Exhausted"} =>
              /\ me.visited = {me.backendRequest.current_song_id}
                                \cup {me.result[i].song_id : i \in DOMAIN me.result}
              /\ me.current_vector =
                    IF me.result = <<>>
                    THEN store[me.backendRequest.current_song_id].embedding
                    ELSE store[me.result[Len(me.result)].song_id].embedding

\* a step of one run leaves every other run's record as it was
C16_OwnStateOnly ==
    \A r1, r2 \in Runs :
        (r1 # r2 /\ run'[r1] # run[r1]) => run'[r2] = run[r2]

\* C16, both parts
C16_NoInterference == []C16_ResultAsAlone /\ [][C16_OwnStateOnly]_vars

\* two runs with different requests are under way at the same time, each
\* with songs visited that the other has not
C16_Witness ==
    /\ run[1].state = "Stepping" /\ run[2].state = "Stepping"
    /\ run[1].backendRequest # run[2].backendRequest
    /\ run[1].visited \ run[2].visited # {}
    /\ run[2].visited \ run[1].visited # {}

\* C17: with an empty trait list the delta is the zero vector and the
\* target of every step is the current vector, so every song of the queue
\* is the closest song, above the threshold, to the song before it among
\* the songs not visited before; no song comes twice.
C17_EmptyTraitsClosestNeighbour ==
    \A r \in Runs :
        LET me == run[r]
            seed == me.backendRequest.current_song_id
            before(i) == {seed} \cup {me.result[j].song_id : j \in 1..(i - 1)}
            from(i) == IF i = 1 THEN store[seed].embedding
                       ELSE store[me.result[i - 1].song_id].embedding
        IN
        (me.state \in {"Seeded", "Stepping", "Retrying", "Done", "Exhausted"}
            /\ me.backendRequest.traits = <<>>)
        => /\ me.delta = ZeroVec
           /\ TargetVector(me.current_vector, me.delta)
                 = VScale(AlphaDen, me.current_vector)
           /\ \A i \in DOMAIN me.result :
                 LET song == me.result[i].song_id IN
                 /\ song \notin before(i)
                 /\ SimEq(me.result[i].similarity,
                          Similarity(store[song].embedding, from(i)))
                 /\ AboveThreshold(me.result[i].similarity,
                                   Threshold - ThresholdDecrement)
                 /\ \A o \in DOMAIN store \ before(i) :
                       store[o].embedding # NullVector =>
                          ~SimLess(me.result[i].similarity,
                                   Similarity(store[o].embedding, from(i)))

\* a queue of two songs from an empty trait list, where the first step
\* had a second candidate above the threshold, less similar, which it
\* left for the next step
C17_Witness ==
    \E r \in Runs :
        LET seedVector == store[run[r].backendRequest.current_song_id].embedding
        IN
        /\ run[r].state = "Done"
        /\ run[r].backendRequest.traits = <<>>
        /\ Len(run[r].result) = 2
        /\ LET later == Similarity(store[run[r].result[2].song_id].embedding,
                                   seedVector)
           IN /\ SimLess(later, run[r].result[1].similarity)
              /\ AboveThreshold(later, Threshold)

\* the second query of a caller, and the ids it returned
CalledAgain == sqlCall2.fn # "none"
Returned2 == {sqlRows2[i].id : i \in DOMAIN sqlRows2}
\* the ids the WHERE clause of a call selects
Candidates(call) ==
    WhereRows(store, call.query_embedding, call.match_threshold,
              call.exclude_song_id)
\* two candidates of a call are equally similar to the query
HasTie(call) ==
    \E o1, o2 \in Candidates(call) :
        /\ o1 # o2
        /\ SimEq(Similarity(store[o1].embedding, call.query_embedding),
                 Similarity(store[o2].embedding, call.query_embedding))

----------------------------------------------------------------------------
(* Claims about song ids, the import and the round trip *)

\* the id the import stores a track under
StoredIdOf(track) == RecordOf(track, "u1").id
TableIds == {row.id : row \in song_embeddings}
\* the step is the upsert of user u's next sub-batch
UpsertStep(u) == job[u].pc = "processing" /\ job'[u] # job[u]
IsOne(sim) == sim.num = sim.den /\ sim.num > 0

\* C13 as stated: a stored song's id is made of its sanitized artist and
\* title, and the seed a client sends for the track that plays is the id
\* the import stored that track under, so the seed is found in the table.
C13_SeedIsStoredId ==
    /\ \A row \in song_embeddings :
          row.id = sanitizeForId(row.artist) \o <<"_">> \o sanitizeForId(row.title)
    /\ (client.sentBy # "" /\ client.playing.id \in ingested) =>
          /\ client.seed = StoredIdOf(client.playing)
          /\ client.seed \in TableIds

\* C14: no two rows of the table share an id, whoever upserts and in
\* whatever order.
C14_UniqueIds ==
    \A r1, r2 \in song_embeddings : r1.id = r2.id => r1 = r2

\* an upsert that succeeds leaves one row per id it names, carrying the
\* record's columns, and no row for any id that is new to nobody
C14_UpsertReplaces ==
    \A u \in Users :
        (UpsertStep(u) /\ ~UpsertFails(RecordsOf(u))) =>
            /\ {row.id : row \in song_embeddings'}
                  = TableIds \cup {RecordsOf(u)[k].id : k \in DOMAIN RecordsOf(u)}
            /\ \A k \in DOMAIN RecordsOf(u) :
                  LET rec == RecordsOf(u)[k]
                      rows == {row \in song_embeddings' : row.id = rec.id}
                  IN /\ Cardinality(rows) = 1
                     /\ \A row \in rows : /\ row.title = rec.title
                                           /\ row.artist = rec.artist
                                           /\ row.user_id = rec.user_id

\* C14, both parts
C14_IdsStayUnique == []C14_UniqueIds /\ [][C14_UpsertReplaces]_vars

\* both users have written the song the two of them like, the second
\* while the first user's import was still under way; the one row is the
\* second user's
C14_Witness ==
    /\ job["u1"].pc \in {"fetching", "processing"}
    /\ job["u1"].batchNumber >= 1
    /\ {TrackGoOn.id, TrackGoOnSingle.id} \subseteq ingested
    /\ \E row \in song_embeddings :
          row.id = StoredIdOf(TrackGoOn) /\ row.user_id = "u2"
    /\ Cardinality(song_embeddings) >= 2

\* C18: an upsert of records that are in the table as they are leaves
\* the table as it is: the same rows, each with its embedding and its
\* other columns.
C18_UpsertIdempotent ==
    [][\A u \in Users :
          (UpsertStep(u) /\ AlreadyStored(song_embeddings, RecordsOf(u))) =>
              /\ song_embeddings' = song_embeddings
              /\ store' = store]_vars

\* a user imported the same songs again after the backend had embedded one
\* of them
C18_Witness ==
    /\ lastUpsert.ok
    /\ lastUpsert.wasStored
    /\ \E k \in DOMAIN lastUpsert.records :
          \E row \in song_embeddings :
              /\ row.id = lastUpsert.records[k].id
              /\ row.embedding # NullVector

----------------------------------------------------------------------------
(* Claims about the playback route, checked under SpecPlayback *)

Preliminaries == {"getSession", "refreshSession", "me", "devices", "player"}
\* a play/pause command went to Spotify: PUT /v1/me/player/{action}
CommandSent ==
    \E i \in DOMAIN playback.calls :
        playback.calls[i] \notin Preliminaries \cup {"transfer"}
TransferSent == \E i \in DOMAIN playback.calls : playback.calls[i] = "transfer"
\* one of the steps before the command failed
PrerequisiteFailed ==
    \/ ~playback.hasToken
    \/ playback.action \notin {"play", "pause"}
    \/ ~playback.premium
    \/ ~playback.targetDevice.supports_remote_control
    \/ (TransferSent /\ ~playback.transferred)

\* C21: a play or pause command is sent only after a session with a
\* provider token was obtained (at most one refresh), the action was
\* validated, the account was found premium, a device with remote control
\* was chosen and the transfer to it succeeded, in this order; when one of
\* these fails no command is sent and the answer is an error status.
C21_CommandOnlyAfterChecks ==
    /\ CommandSent =>
          /\ playback.hasToken
          /\ playback.refreshes <= 1
          /\ playback.action \in {"play", "pause"}
          /\ playback.premium
          /\ playback.targetDevice.supports_remote_control
          /\ playback.transferred
          /\ playback.calls \in
                { <<"getSession", "me", "devices", "player", "transfer",
                    playback.action>>,
                  <<"getSession", "refreshSession", "me", "devices", "player",
                    "transfer", playback.action>> }
    /\ (playback.pc = "done" /\ PrerequisiteFailed) =>
          /\ ~CommandSent
          /\ ~playback.response.success
          /\ playback.response.status >= 400

\* a pause command was sent after the token came from a refresh and the
\* chosen device was the active second one
C21_Witness ==
    /\ playback.pc = "done"
    /\ CommandSent
    /\ playback.action = "pause"
    /\ playback.refreshes = 1
    /\ playback.targetDevice.id = "d2"
    /\ playback.response.success

\* C22 as stated: once the route has looked the playback state up, a
\* request for what Spotify already does is answered with success, and
\* neither a transfer nor a play/pause command is sent.
C22_NothingSentWhenNothingToDo ==
    (/\ playback.pc = "done"
     /\ playback.lookup # "none"
     /\ NothingToDo(playback.action, playback.wasPlaying)) =>
        /\ playback.response.success
        /\ ~TransferSent
        /\ ~CommandSent

\* C23 as stated: a pause request is answered with success only if
\* Spotify plays nothing afterwards.
C23_PauseSuccessMeansStopped ==
    (/\ playback.pc = "done"
     /\ playback.action = "pause"
     /\ playback.response.success) => ~playback.spotifyPlaying


----------------------------------------------------------------------------
(* Claims about the import job, checked under SpecIngest *)

\* the step sends the POST to /process-user-tracks for user u
TriggerStep(u) == job'[u].triggered > job[u].triggered
\* the step ends a turn of the paging loop of user u's job
PageEnds(u) ==
    /\ job[u].pc \in {"fetching", "processing"}
    /\ job'[u].pc \in {"fetching", "triggering"}
    /\ job'[u] # job[u]

\* the trigger is sent when no page is left to fetch and the upserts of
\* the last page are over
C24_TriggerAfterAllPages ==
    \A u \in Users :
        TriggerStep(u) =>
            /\ job[u].pc = "triggering"
            /\ job[u].batchNumber >= 1
            /\ job[u].nextPages = <<>>
            /\ job[u].i >= Len(job[u].tracks)
            /\ job'[u].pc \in {"done", "failed"}

\* the paging loop goes on to the next page when there is one and leaves
\* for the trigger when there is none
C24_LoopEndsAtLastPage ==
    \A u \in Users :
        PageEnds(u) =>
            /\ (job'[u].pc = "triggering") <=> (job'[u].nextPages = <<>>)
            /\ (job'[u].pc = "fetching") <=> (job'[u].nextPages # <<>>)

C24_AtMostOncePerRun == \A u \in Users : job[u].sent <= 1

C25_TriggerOnlyIfInserted ==
    \A u \in Users : job[u].sent > 0 => job[u].inserted > 0


----------------------------------------------------------------------------
(* Claims about the auth callback, checked under SpecCallback *)

BackgroundStarted == callback.bg.pc # "none"

\* the callback has answered with the redirect to next whenever the
\* background work exists, whatever state that work is in
C26_RespondedWithoutWaiting ==
    BackgroundStarted =>
        /\ callback.pc = "responded"
        /\ callback.response = callback.next
\* the work is started only with a provider token
C26_StartedOnlyWithToken == BackgroundStarted => callback.hasToken
\* no step of the background work changes the answer
C26_AnswerUnchanged ==
    (/\ BackgroundStarted
     /\ callback'.bg # callback.bg
     /\ callback'.bg.pc # "none") =>
        /\ callback'.response = callback.response
        /\ callback'.pc = callback.pc
\* a failure of the work ends in its catch
C26_FailureCaught ==
    callback.bg.pc \in
        {"none", "fetching", "creating", "posting", "completed", "skipped",
         "caught"}

\* C26: the callback returns its redirect without waiting for the track
\* processing, which is started only with a provider token; the answer is
\* the same whether the processing succeeds, fails or never ends, and a
\* failure of it is caught.
C26_CallbackDoesNotWait ==
    /\ [](C26_RespondedWithoutWaiting /\ C26_StartedOnlyWithToken
            /\ C26_FailureCaught)
    /\ [][C26_AnswerUnchanged]_vars

\* the callback has answered and the processing it started has failed
\* after writing rows
C26_Witness ==
    /\ callback.pc = "responded"
    /\ callback.response = "/djbooth"
    /\ callback.bg.pc = "caught"
    /\ callback.bg.inserted > 0
    /\ callback.bg.posted = 1
    /\ song_embeddings # {}


----------------------------------------------------------------------------
(* Claims about the player's navigation, checked under SpecPlayer *)

\* C27 as stated: an operation that set isAnimating sets it back on every
\* path.  Only the operation itself can set it back, so: once no
\* operation has a step or a timer pending, isAnimating is false.
C27_AnimationAlwaysEnds == player.ops = <<>> => ~player.isAnimating

C28_AtMostOneOperation == Len(player.ops) <= 1
\* a click that arrives while an operation has not come to its end
\* changes no queue state, sends no command and starts nothing
C28_BlockedClickDoesNothing ==
    (player'.calls > player.calls /\ player.ops # <<>>) =>
        /\ player'.queueState = player.queueState
        /\ player'.commands = player.commands
        /\ player'.ops = player.ops
        /\ player'.isAnimating = player.isAnimating
        /\ player'.currentFlow = player.currentFlow

\* C28: at most one of nextTrack, previousTrack and changeFlow is in
\* progress, and a call that arrives meanwhile neither changes the queue
\* state nor sends a command, however clicks and pending steps interleave.
C28_OneNavigationAtATime ==
    []C28_AtMostOneOperation /\ [][C28_BlockedClickDoesNothing]_vars

\* a click arrived while nextTrack was waiting for the player: one
\* command has been sent, not two
C28_Witness ==
    /\ player.blocked = 1
    /\ player.calls = 2
    /\ player.commands = 1
    /\ Len(player.ops) = 1
    /\ player.ops[1].kind = "next"

\* previousTrack followed nextTrack with no player event in between, from
\* a queue state with a current track and a next track
NextThenPrevious ==
    /\ player.trail \in {<<"next", "previous">>, <<"next", "added", "previous">>}
    /\ player.snapshot.currentTrack # NoTrack
    /\ Len(player.snapshot.nextTracks) >= 1

\* C29 as stated: nextTrack followed by previousTrack restores the queue
\* state.
C29_NextPreviousRestores ==
    NextThenPrevious => player.queueState = player.snapshot

\* C29 amended: it does when the history held fewer than QueueCap tracks,
\* the queue at most QueueCap, and the queue fetch of nextTrack added no
\* track.
C29_NextPreviousRestoresWithinCap ==
    (/\ NextThenPrevious
     /\ player.trail = <<"next", "previous">>
     /\ Len(player.snapshot.previousTracks) < QueueCap
     /\ Len(player.snapshot.nextTracks) <= QueueCap) =>
        player.queueState = player.snapshot

\* next then previous from a queue with a history of one and two tracks
\* to come, after which the queue is as it was
C29_Witness ==
    /\ player.trail = <<"next", "previous">>
    /\ player.snapshot.currentTrack = QTrack("t1")
    /\ Len(player.snapshot.nextTracks) = 2
    /\ player.queueState = player.snapshot
    /\ player.commands = 2

====
